---- MODULE Spec2Model ----
(***************************************************************************)
(* A model of the openstack_query engine: the ClientSideHandler            *)
(* (preset/property lookup, kwargs validation, the wrapped predicate),     *)
(* the QueryBuilder (parse_where) and the QueryParser (parse_sort_by,      *)
(* parse_group_by, run_parser).                                            *)
(***************************************************************************)
EXTENDS Integers, Sequences, FiniteSets, TLC

\* ------------------------------------------------------------------ bounds
\* longest list of client-side handlers a QueryBuilder is constructed with
MaxHandlers == 2

\* most records in a list given to run_parser
MaxRecords == 3

\* most sort specs in one parse_sort_by call
MaxSpecs == 2

\* ------------------------------------------------------------- vocabulary
\* Python's None, where a value of string type may be absent
None == "None"

\* query presets (operators) used in the model
Presets == {"EQUAL_TO", "MATCHES_REGEX", "OLDER_THAN"}

\* the members of the ServerProperties enumeration, by name
ServerProperties ==
    {"FLAVOR_ID", "HYPERVISOR_ID", "IMAGE_ID", "PROJECT_ID", "SERVER_CREATION_DATE",
     "SERVER_DESCRIPTION", "SERVER_ID", "SERVER_LAST_UPDATED_DATE", "SERVER_NAME",
     "SERVER_STATUS", "USER_ID"}

\* the properties queried by in the model
QueriedProps == {"SERVER_ID", "SERVER_NAME", "SERVER_CREATION_DATE"}

\* faulty variant: the mapping lacks the entry of one member
ServerPropMappingIncomplete ==
    {<<"USER_ID", "user_id">>, <<"HYPERVISOR_ID", "host_id">>, <<"SERVER_ID", "id">>,
     <<"SERVER_NAME", "name">>, <<"SERVER_DESCRIPTION", "description">>,
     <<"SERVER_CREATION_DATE", "created_at">>,
     <<"SERVER_LAST_UPDATED_DATE", "updated_at">>, <<"FLAVOR_ID", "flavor_id">>,
     <<"IMAGE_ID", "image_id">>, <<"PROJECT_ID", "location">>}

\* the `mapping` dict of get_prop_func: member -> the key its accessor
\* subscripts the record with (PROJECT_ID: the first key of
\* a["location"]["project"]["id"])
ServerPropMapping ==
    {<<"USER_ID", "user_id">>, <<"HYPERVISOR_ID", "host_id">>, <<"SERVER_ID", "id">>,
     <<"SERVER_NAME", "name">>, <<"SERVER_DESCRIPTION", "description">>,
     <<"SERVER_STATUS", "status">>, <<"SERVER_CREATION_DATE", "created_at">>,
     <<"SERVER_LAST_UPDATED_DATE", "updated_at">>, <<"FLAVOR_ID", "flavor_id">>,
     <<"IMAGE_ID", "image_id">>, <<"PROJECT_ID", "location">>}

\* the members the mapping has an entry for
MappedProps == {e[1] : e \in ServerPropMapping}

\* the key each ServerProperties accessor subscripts its record with
PropKey(prop) ==
    IF prop \in MappedProps
    THEN (CHOOSE e \in ServerPropMapping : e[1] = prop)[2]
    ELSE None

\* ------------------------------------------------------- filter functions
\* A parameter of a filter function as inspect.signature reports it (the
\* first parameter, which receives the property value, is already dropped):
\* kind is one of inspect.Parameter's kinds, annotation is "empty" (none),
\* "Any", or a plain class.
ParamKinds == {"POSITIONAL_OR_KEYWORD", "VAR_POSITIONAL", "KEYWORD_ONLY", "VAR_KEYWORD"}

Annotations == {"empty", "Any", "int", "str"}

Param(name, kind, has_default, annotation) ==
    [name |-> name, kind |-> kind, has_default |-> has_default, annotation |-> annotation]

\* A filter function: its __name__ and its parameters after the first.
FilterFunc(name, params) == [defined |-> TRUE, name |-> name, params |-> params]

\* no function registered (dict.get(preset, None) gives None)
NoFilterFunc == [defined |-> FALSE, name |-> None, params |-> <<>>]

\* kwargs: None, or a dict of name -> value; a value is modelled by its type
KwNone == [is_none |-> TRUE, items |-> {}]

KwDict(items) == [is_none |-> FALSE, items |-> items]

KwKeys(kw) == {it[1] : it \in kw.items}

KwValue(kw, name) == (CHOOSE it \in kw.items : it[1] = name)[2]

\* Python truthiness of `filter_func_kwargs` (None and {} are falsy)
KwTruthy(kw) == ~kw.is_none /\ kw.items # {}

\* ------------------------------------------------------ ClientSideHandler
\* One entry of _filter_function_mappings: `known` when the preset is a key,
\* `wildcard` when its value is ["*"], otherwise `props` is the listed props.
NoEntry == [known |-> FALSE, wildcard |-> FALSE, props |-> {}]

WildcardEntry == [known |-> TRUE, wildcard |-> TRUE, props |-> {}]

PropsEntry(props) == [known |-> TRUE, wildcard |-> FALSE, props |-> props]

\* A handler: the mappings given to __init__ and the subclass's table of
\* filter functions by preset.
Handler(mappings, functions) == [mappings |-> mappings, functions |-> functions]

preset_known(h, preset) == h.mappings[preset].known

\* faulty variant: the wildcard entry is not honoured
check_supported_listed_only(h, preset, prop) ==
    IF ~preset_known(h, preset) THEN FALSE
    ELSE IF prop \in h.mappings[preset].props THEN TRUE
    ELSE FALSE

check_supported(h, preset, prop) ==
    IF ~preset_known(h, preset) THEN FALSE
    ELSE IF prop \in h.mappings[preset].props THEN TRUE
    ELSE IF h.mappings[preset].wildcard THEN TRUE
    ELSE FALSE

\* the reason string of _check_filter_func, by its kind and the names in it
Reason(kind, names) == [kind |-> kind, names |-> names]

NoReason == Reason("", {})

has_varargs(parameters) ==
    \E i \in 1..Len(parameters) : parameters[i].kind = "VAR_POSITIONAL"

has_varkwargs(parameters) ==
    \E i \in 1..Len(parameters) : parameters[i].kind = "VAR_KEYWORD"

\* isinstance(kwargs_value, param_type) for a plain class
IsInstance(value_type, param_type) == value_type = param_type

\* the `for param in parameters` loop of _check_filter_func from index i on:
\* the reason of the first failing parameter, NoReason when none fails
RECURSIVE CheckParams(_, _, _)
CheckParams(parameters, i, kw) ==
    IF i > Len(parameters) THEN NoReason
    ELSE LET param == parameters[i] IN
         IF param.kind = "POSITIONAL_OR_KEYWORD"
         THEN IF param.name \in KwKeys(kw)
              THEN IF param.annotation \notin {"Any", "empty"}
                      /\ ~IsInstance(KwValue(kw, param.name), param.annotation)
                   THEN Reason("incorrect_type", {param.name})
                   ELSE CheckParams(parameters, i + 1, kw)
              ELSE IF ~param.has_default
                   THEN Reason("expected_but_not_given", {param.name})
                   ELSE CheckParams(parameters, i + 1, kw)
         ELSE CheckParams(parameters, i + 1, kw)

\* _check_filter_func(func, func_kwargs): (valid, reason), or the exception
\* raised. The debug log line reads func_kwargs.items() first, which raises
\* AttributeError on None.
CheckResult(raised, valid, reason) == [raised |-> raised, valid |-> valid, reason |-> reason]

\* faulty variant: only **kwargs lets unexpected keys through, *args does not
check_filter_func_varkwargs_only(func, func_kwargs) ==
    IF func_kwargs.is_none THEN CheckResult("AttributeError", FALSE, NoReason)
    ELSE LET parameters == func.params
             r == CheckParams(parameters, 1, func_kwargs)
             unexpected_vals == KwKeys(func_kwargs)
                                  \ {parameters[i].name : i \in 1..Len(parameters)}
         IN IF r # NoReason THEN CheckResult(None, FALSE, r)
            ELSE IF ~has_varkwargs(parameters) /\ unexpected_vals # {}
                 THEN CheckResult(None, FALSE, Reason("unexpected_arguments", unexpected_vals))
                 ELSE CheckResult(None, TRUE, NoReason)

check_filter_func(func, func_kwargs) ==
    IF func_kwargs.is_none THEN CheckResult("AttributeError", FALSE, NoReason)
    ELSE LET parameters == func.params
             r == CheckParams(parameters, 1, func_kwargs)
             unexpected_vals == KwKeys(func_kwargs)
                                  \ {parameters[i].name : i \in 1..Len(parameters)}
         IN IF r # NoReason THEN CheckResult(None, FALSE, r)
            ELSE IF ~has_varargs(parameters) /\ ~has_varkwargs(parameters)
                    /\ unexpected_vals # {}
                 THEN CheckResult(None, FALSE, Reason("unexpected_arguments", unexpected_vals))
                 ELSE CheckResult(None, TRUE, NoReason)

\* The predicate get_filter_func returns: the lambda's captured values.
NoPredicate == [set |-> FALSE]

Predicate(filter_func, prop_func, kw) ==
    [set |-> TRUE, filter_func |-> filter_func, prop_func |-> prop_func, kwargs |-> kw]

\* what a call gives: the exception raised (None when it returns), which of
\* the messages it carries, the validation reason, and the value returned
CallResult(raised, msg, reason, value) ==
    [raised |-> raised, msg |-> msg, reason |-> reason, value |-> value]

\* faulty variant: the function is looked up by preset whether or not the pair
\* is supported
get_filter_func_lookup_first(h, preset, prop, prop_func, filter_func_kwargs) ==
    LET filter_func == h.functions[preset]
    IN IF ~filter_func.defined
       THEN CallResult("QueryPresetMappingError", "Preset Not Found", NoReason, NoPredicate)
       ELSE LET chk == check_filter_func(filter_func, filter_func_kwargs) IN
            IF chk.raised # None
            THEN CallResult(chk.raised, "", NoReason, NoPredicate)
            ELSE IF ~chk.valid
            THEN CallResult("QueryPresetMappingError", "Preset Argument Error",
                            chk.reason, NoPredicate)
            ELSE CallResult(None, "", NoReason,
                            Predicate(filter_func, prop_func, filter_func_kwargs))

\* get_filter_func: the function of the preset when the pair is supported,
\* its kwargs check, then the wrapping lambda
get_filter_func(h, preset, prop, prop_func, filter_func_kwargs) ==
    LET filter_func == IF check_supported(h, preset, prop)
                       THEN h.functions[preset]
                       ELSE NoFilterFunc
    IN IF ~filter_func.defined
       THEN CallResult("QueryPresetMappingError", "Preset Not Found", NoReason, NoPredicate)
       ELSE LET chk == check_filter_func(filter_func, filter_func_kwargs) IN
            IF chk.raised # None
            THEN CallResult(chk.raised, "", NoReason, NoPredicate)
            ELSE IF ~chk.valid
            THEN CallResult("QueryPresetMappingError", "Preset Argument Error",
                            chk.reason, NoPredicate)
            ELSE CallResult(None, "", NoReason,
                            Predicate(filter_func, prop_func, filter_func_kwargs))

\* ------------------------------------------------- accessors and records
\* A property accessor: ServerProperties' accessors subscript the record
\* (a["id"]); an accessor may also read an attribute (a.id).
PropFunc(style, key) == [defined |-> TRUE, style |-> style, key |-> key]

NoPropFunc == [defined |-> FALSE, style |-> None, key |-> None]

\* ServerProperties.get_prop_func(prop) for a member of the enumeration
ServerPropFunc(prop) == PropFunc("subscript", PropKey(prop))

\* an accessor that reads an attribute of the record
AttrPropFunc(prop) == PropFunc("attribute", PropKey(prop))

\* A record (resource): the keys it holds, and the answer the raw filter
\* function gives for its property value.
Item(fields, raw_result) == [fields |-> fields, raw_result |-> raw_result]

\* selected_prop_func(item): the exception a missing key raises
ApplyPropFunc(prop_func, item) ==
    IF prop_func.key \in item.fields THEN None
    ELSE IF prop_func.style = "subscript" THEN "KeyError"
    ELSE "AttributeError"

\* whether Python can bind filter_func(item_prop, **kwargs)
CallBinds(func, keys) ==
    /\ \A i \in 1..Len(func.params) :
          (func.params[i].kind \in {"POSITIONAL_OR_KEYWORD", "KEYWORD_ONLY"}
             /\ ~func.params[i].has_default) => func.params[i].name \in keys
    /\ \/ has_varkwargs(func.params)
       \/ keys \subseteq {func.params[i].name : i \in
                            {j \in 1..Len(func.params) :
                               func.params[j].kind \in {"POSITIONAL_OR_KEYWORD", "KEYWORD_ONLY"}}}

\* what applying a predicate gives: the exception raised, the boolean
\* returned, and whether the raw filter function ran
Applied(raised, value, invoked) == [raised |-> raised, value |-> value, invoked |-> invoked]

\* the exceptions the wrapper's `except` clause catches
CaughtByWrapper(exc) == exc = "AttributeError"

filter_func_wrapper(item, selected_filter_func, selected_prop_func, filter_func_kwargs) ==
    LET exc == ApplyPropFunc(selected_prop_func, item)
        keys == IF KwTruthy(filter_func_kwargs) THEN KwKeys(filter_func_kwargs) ELSE {}
    IN IF exc # None
       THEN IF CaughtByWrapper(exc) THEN Applied(None, FALSE, FALSE)
            ELSE Applied(exc, FALSE, FALSE)
       ELSE IF ~CallBinds(selected_filter_func, keys)
            THEN Applied("TypeError", FALSE, FALSE)
            ELSE Applied(None, item.raw_result, TRUE)

\* calling the predicate get_filter_func returned
ApplyPredicate(pred, item) ==
    filter_func_wrapper(item, pred.filter_func, pred.prop_func, pred.kwargs)

\* ---------------------------------------------------------- collaborators
\* The prop handler a builder is given: the properties it has a mapping
\* for. get_prop_func gives the accessor, or None when there is no mapping.
PropHandlers == {QueriedProps, QueriedProps \ {"SERVER_ID"}}

PropHandlerGetPropFunc(ph, prop) ==
    IF prop \in ph THEN ServerPropFunc(prop) ELSE NoPropFunc

\* The server-side handler a builder is given: None (present = FALSE), or
\* the (preset, property) pairs it maps to remote filter parameters.
NoServerSideHandler == [present |-> FALSE, pairs |-> {}]

ServerSideHandler(pairs) == [present |-> TRUE, pairs |-> pairs]

ServerSideHandlers ==
    { NoServerSideHandler,
      ServerSideHandler({<<"EQUAL_TO", "SERVER_ID">>, <<"EQUAL_TO", "SERVER_NAME">>,
                         <<"OLDER_THAN", "SERVER_CREATION_DATE">>}) }

\* server-side filters: None, or the remote parameters of a mapped pair
NoFilters == [set |-> FALSE]

Filters(preset, prop, params) ==
    [set |-> TRUE, preset |-> preset, prop |-> prop, params |-> params]

ServerSideGetFilters(h, preset, prop, params) ==
    IF <<preset, prop>> \in h.pairs THEN Filters(preset, prop, params.items) ELSE NoFilters

\* The client-side handlers builders are made from
GenericMappings == [p \in Presets |-> IF p = "EQUAL_TO" THEN WildcardEntry ELSE NoEntry]

StringMappings ==
    [p \in Presets |-> IF p = "MATCHES_REGEX" THEN PropsEntry({"SERVER_NAME"}) ELSE NoEntry]

DateTimeMappings ==
    [p \in Presets |-> IF p = "OLDER_THAN" THEN PropsEntry({"SERVER_CREATION_DATE"})
                       ELSE NoEntry]

AnyMappings ==
    [p \in Presets |-> IF p \in {"EQUAL_TO", "OLDER_THAN"} THEN WildcardEntry ELSE NoEntry]

HandlerFunctions ==
    [p \in Presets |->
        CASE p = "EQUAL_TO" ->
               FilterFunc("_prop_equal_to",
                          <<Param("value", "POSITIONAL_OR_KEYWORD", FALSE, "empty")>>)
          [] p = "MATCHES_REGEX" ->
               FilterFunc("_prop_matches_regex",
                          <<Param("regex_string", "POSITIONAL_OR_KEYWORD", FALSE, "str")>>)
          [] p = "OLDER_THAN" ->
               FilterFunc("_prop_older_than",
                          <<Param("days", "POSITIONAL_OR_KEYWORD", TRUE, "int")>>)]

AnyFunctions ==
    [p \in Presets |->
        FilterFunc("_prop_any", <<Param("args", "VAR_POSITIONAL", FALSE, "empty"),
                                  Param("kwargs", "VAR_KEYWORD", FALSE, "empty")>>)]

HandlerCatalog ==
    { Handler(GenericMappings, HandlerFunctions), Handler(StringMappings, HandlerFunctions),
      Handler(DateTimeMappings, HandlerFunctions), Handler(AnyMappings, AnyFunctions) }

\* the lists of at most n handlers, each handler at most once
HandlerLists(n) ==
    UNION { {l \in [1..k -> HandlerCatalog] : \A i, j \in 1..k : l[i] = l[j] => i = j}
            : k \in 0..n }

\* the kwargs callers pass to parse_where
BuilderKwargs ==
    { KwNone, KwDict({}), KwDict({<<"value", "str">>}), KwDict({<<"regex_string", "int">>}) }

\* ------------------------------------------------------------ QueryBuilder
\* one call on a collaborator, in the order parse_where made it
Call(name, index) == <<name, index>>

\* faulty variant: the guard against a second where() is dropped
filter_already_set_dropped(csf) == FALSE

\* `if self._client_side_filter:` a stored predicate is truthy
filter_already_set(csf) == csf.set

\* `if not prop_func:`
prop_func_missing(prop_func) == ~prop_func.defined

\* the handlers any(i.preset_known(preset) ...) asks, stopping at the first
\* that knows the preset
PresetKnownCalls(handlers, preset) ==
    LET known == {i \in 1..Len(handlers) : preset_known(handlers[i], preset)}
        last == IF known = {} THEN Len(handlers)
                ELSE CHOOSE i \in known : \A j \in known : i <= j
    IN [i \in 1..last |-> Call("preset_known", i)]

\* the handlers the `for` loop asks check_supported, stopping at the first
\* that supports the pair
CheckSupportedCalls(handlers, preset, prop) ==
    LET sup == {i \in 1..Len(handlers) : check_supported(handlers[i], preset, prop)}
        last == IF sup = {} THEN Len(handlers)
                ELSE CHOOSE i \in sup : \A j \in sup : i <= j
    IN [i \in 1..last |-> Call("check_supported", i)]

\* _get_preset_handler: the index of the handler returned in value (0 when
\* it raises) and the calls made
HandlerResult(raised, msg, value, calls) ==
    [raised |-> raised, msg |-> msg, value |-> value, calls |-> calls]

\* faulty variant: the any(preset_known) check is skipped, so an unknown preset
\* falls through to the loop and its error
get_preset_handler_no_known_check(handlers, preset, prop) ==
    LET sup == {i \in 1..Len(handlers) : check_supported(handlers[i], preset, prop)}
    IN IF sup # {}
       THEN HandlerResult(None, "", CHOOSE i \in sup : \A j \in sup : i <= j,
                          CheckSupportedCalls(handlers, preset, prop))
       ELSE HandlerResult("QueryPresetMappingError", "No client-side handler found for preset", 0,
                          CheckSupportedCalls(handlers, preset, prop))

\* faulty variant: the last handler that supports the pair is returned
get_preset_handler_last_match(handlers, preset, prop) ==
    LET sup == {i \in 1..Len(handlers) : check_supported(handlers[i], preset, prop)}
    IN IF ~\E i \in 1..Len(handlers) : preset_known(handlers[i], preset)
       THEN HandlerResult("QueryPresetMappingError", "No client-side handler found for preset - property pair",
                          0, PresetKnownCalls(handlers, preset))
       ELSE IF sup # {}
       THEN HandlerResult(None, "", CHOOSE i \in sup : \A j \in sup : i >= j,
                          PresetKnownCalls(handlers, preset)
                            \o [i \in 1..Len(handlers) |-> Call("check_supported", i)])
       ELSE HandlerResult("QueryPresetMappingError", "No client-side handler found for preset", 0,
                          PresetKnownCalls(handlers, preset)
                            \o CheckSupportedCalls(handlers, preset, prop))

\* _get_preset_handler: the any(preset_known) test, then the first handler
\* of the list that supports the pair
get_preset_handler(handlers, preset, prop) ==
    LET sup == {i \in 1..Len(handlers) : check_supported(handlers[i], preset, prop)}
    IN IF ~\E i \in 1..Len(handlers) : preset_known(handlers[i], preset)
       THEN HandlerResult("QueryPresetMappingError", "No client-side handler found for preset - property pair",
                          0, PresetKnownCalls(handlers, preset))
       ELSE IF sup # {}
       THEN HandlerResult(None, "", CHOOSE i \in sup : \A j \in sup : i <= j,
                          PresetKnownCalls(handlers, preset)
                            \o CheckSupportedCalls(handlers, preset, prop))
       ELSE HandlerResult("QueryPresetMappingError", "No client-side handler found for preset", 0,
                          PresetKnownCalls(handlers, preset)
                            \o CheckSupportedCalls(handlers, preset, prop))

\* what one parse_where call leaves: the two fields, which fields it
\* assigned, the exception it raised (None when it returned) with its
\* message, and the calls it made on its collaborators
Outcome(csf, ssf, assigned, raised, msg, reason, calls) ==
    [csf |-> csf, ssf |-> ssf, assigned |-> assigned, raised |-> raised, msg |-> msg,
     reason |-> reason, calls |-> calls]

\* faulty variant: a pair without server-side mapping is treated as an error
store_server_side_filters_strict(ssh, pred, ssf, preset, prop, kw, calls) ==
    IF ~ssh.present
    THEN Outcome(pred, ssf, {"client_side_filter"}, "AttributeError", "", NoReason, calls)
    ELSE IF ~ServerSideGetFilters(ssh, preset, prop, kw).set
    THEN Outcome(pred, ssf, {"client_side_filter"}, "QueryPresetMappingError",
                 "No server-side filters", NoReason, calls \o <<Call("get_filters", 0)>>)
    ELSE Outcome(pred, ServerSideGetFilters(ssh, preset, prop, kw),
                 {"client_side_filter", "server_side_filters"}, None, "", NoReason,
                 calls \o <<Call("get_filters", 0)>>)

\* lines 98-100: the server-side lookup and its assignment, after the
\* client-side filter `pred` was stored
store_server_side_filters(ssh, pred, ssf, preset, prop, kw, calls) ==
    IF ~ssh.present
    THEN Outcome(pred, ssf, {"client_side_filter"}, "AttributeError", "", NoReason, calls)
    ELSE Outcome(pred, ServerSideGetFilters(ssh, preset, prop, kw),
                 {"client_side_filter", "server_side_filters"}, None, "", NoReason,
                 calls \o <<Call("get_filters", 0)>>)

\* faulty variant: the predicate is stored before the kwargs are validated, so a
\* failed validation leaves it behind
store_client_side_filter_early(handlers, ssh, csf, ssf, preset, prop, prop_func, kw, calls) ==
    LET sel == get_preset_handler(handlers, preset, prop) IN
    IF sel.raised # None
    THEN Outcome(csf, ssf, {}, sel.raised, sel.msg, NoReason, calls \o sel.calls)
    ELSE LET h == handlers[sel.value]
             res == get_filter_func(h, preset, prop, prop_func, kw)
             made == calls \o sel.calls \o <<Call("get_filter_func", sel.value)>>
         IN IF res.raised # None
            THEN Outcome(Predicate(h.functions[preset], prop_func, kw), ssf,
                         {"client_side_filter"}, res.raised, res.msg, res.reason, made)
            ELSE store_server_side_filters(ssh, res.value, ssf, preset, prop, kw, made)

\* lines 90-96: handler selection, get_filter_func and its assignment
store_client_side_filter(handlers, ssh, csf, ssf, preset, prop, prop_func, kw, calls) ==
    LET sel == get_preset_handler(handlers, preset, prop) IN
    IF sel.raised # None
    THEN Outcome(csf, ssf, {}, sel.raised, sel.msg, NoReason, calls \o sel.calls)
    ELSE LET res == get_filter_func(handlers[sel.value], preset, prop, prop_func, kw)
             made == calls \o sel.calls \o <<Call("get_filter_func", sel.value)>>
         IN IF res.raised # None
            THEN Outcome(csf, ssf, {}, res.raised, res.msg, res.reason, made)
            ELSE store_server_side_filters(ssh, res.value, ssf, preset, prop, kw, made)

\* faulty variant: the preset handler is selected before the property accessor is
\* checked
parse_where_handler_first(handlers, ph, ssh, csf, ssf, preset, prop, preset_kwargs) ==
    IF filter_already_set(csf)
    THEN Outcome(csf, ssf, {}, "ParseQueryError", "Already set a query preset", NoReason, <<>>)
    ELSE LET prop_func == PropHandlerGetPropFunc(ph, prop)
             calls == <<Call("get_prop_func", 0)>>
             sel == get_preset_handler(handlers, preset, prop)
         IN IF sel.raised # None
            THEN Outcome(csf, ssf, {}, sel.raised, sel.msg, NoReason, calls \o sel.calls)
            ELSE IF prop_func_missing(prop_func)
            THEN Outcome(csf, ssf, {}, "QueryPropertyMappingError",
                         "failed to get property mapping", NoReason, calls \o sel.calls)
            ELSE store_client_side_filter(handlers, ssh, csf, ssf, preset, prop, prop_func,
                                          preset_kwargs, calls)

parse_where(handlers, ph, ssh, csf, ssf, preset, prop, preset_kwargs) ==
    IF filter_already_set(csf)
    THEN Outcome(csf, ssf, {}, "ParseQueryError", "Already set a query preset", NoReason, <<>>)
    ELSE LET prop_func == PropHandlerGetPropFunc(ph, prop)
             calls == <<Call("get_prop_func", 0)>>
         IN IF prop_func_missing(prop_func)
            THEN Outcome(csf, ssf, {}, "QueryPropertyMappingError",
                         "failed to get property mapping", NoReason, calls)
            ELSE store_client_side_filter(handlers, ssh, csf, ssf, preset, prop, prop_func,
                                          preset_kwargs, calls)

\* ------------------------------------------------------------- QueryParser
\* The properties the parser's prop handler supports (check_supported), and
\* get_prop(obj, prop): the value the accessor reads from a record.
ParserProps == {"SERVER_ID", "SERVER_NAME"}

PropHandlerCheckSupported(ph, prop) == prop \in ph

get_prop(obj, prop) == obj.vals[prop]

\* faulty variant: an unsupported property is let through
check_prop_valid_never_raises(ph, prop) == None

\* _check_prop_valid: the exception it raises, None when it returns
check_prop_valid(ph, prop) ==
    IF ~PropHandlerCheckSupported(ph, prop) THEN "QueryPropertyMappingError" ELSE None

\* an ordered dict as the sequence of its (key, value) items
DictKeys(d) == {d[i][1] : i \in 1..Len(d)}

\* dict.update({k: v}): a new key is appended, a present key keeps its place
DictUpdate(d, k, v) ==
    IF k \in DictKeys(d)
    THEN [i \in 1..Len(d) |-> IF d[i][1] = k THEN <<k, v>> ELSE d[i]]
    ELSE Append(d, <<k, v>>)

\* what a configuration call leaves: the field and the exception raised
Configured(value, raised) == [value |-> value, raised |-> raised]

\* the loop of parse_sort_by from argument i on, `d` being self._sort_by
RECURSIVE SortByLoop(_, _, _, _)
SortByLoop(ph, sort_by, i, d) ==
    IF i > Len(sort_by) THEN Configured(d, None)
    ELSE IF check_prop_valid(ph, sort_by[i][1]) # None
    THEN Configured(d, check_prop_valid(ph, sort_by[i][1]))
    ELSE SortByLoop(ph, sort_by, i + 1, DictUpdate(d, sort_by[i][1], sort_by[i][2]))

\* faulty variant: the previous configuration is kept and extended
parse_sort_by_extending(ph, old, sort_by) == SortByLoop(ph, sort_by, 1, old)

\* parse_sort_by(*sort_by) on a parser whose _sort_by is `old`
parse_sort_by(ph, old, sort_by) == SortByLoop(ph, sort_by, 1, <<>>)

\* x goes before e in a list sorted on `prop`, descending when `reverse`
GoesBefore(x, e, prop, reverse) ==
    IF reverse THEN get_prop(x, prop) > get_prop(e, prop)
    ELSE get_prop(x, prop) < get_prop(e, prop)

\* x put into the sorted list after every element it does not go before
RECURSIVE InsertSorted(_, _, _, _)
InsertSorted(sorted, x, prop, reverse) ==
    IF sorted = <<>> THEN <<x>>
    ELSE IF GoesBefore(x, Head(sorted), prop, reverse) THEN <<x>> \o sorted
    ELSE <<Head(sorted)>> \o InsertSorted(Tail(sorted), x, prop, reverse)

\* faulty variant: a descending sort is an ascending sort turned around, which
\* turns the tied records around too
RECURSIVE ListSort_reversing(_, _, _)
ListSort_reversing(obj_list, prop, reverse) ==
    IF obj_list = <<>> THEN <<>>
    ELSE IF reverse
    THEN LET asc == ListSort_reversing(obj_list, prop, FALSE)
         IN [i \in 1..Len(asc) |-> asc[Len(asc) + 1 - i]]
    ELSE InsertSorted(ListSort_reversing(SubSeq(obj_list, 1, Len(obj_list) - 1), prop, FALSE),
                      obj_list[Len(obj_list)], prop, FALSE)

\* list.sort(key=..., reverse=...): stable in both directions
RECURSIVE ListSort(_, _, _)
ListSort(obj_list, prop, reverse) ==
    IF obj_list = <<>> THEN <<>>
    ELSE InsertSorted(ListSort(SubSeq(obj_list, 1, Len(obj_list) - 1), prop, reverse),
                      obj_list[Len(obj_list)], prop, reverse)

\* faulty variant: the sorts are applied in declaration order, which makes
\* the last spec the primary key
RECURSIVE run_sort_declaration_order(_, _)
run_sort_declaration_order(obj_list, sort_by_specs) ==
    IF sort_by_specs = <<>> THEN obj_list
    ELSE run_sort_declaration_order(
             ListSort(obj_list, sort_by_specs[1][1], sort_by_specs[1][2]),
             Tail(sort_by_specs))

\* _run_sort: one list.sort per spec, the last spec first
RECURSIVE run_sort(_, _)
run_sort(obj_list, sort_by_specs) ==
    IF sort_by_specs = <<>> THEN obj_list
    ELSE LET n == Len(sort_by_specs) IN
         run_sort(ListSort(obj_list, sort_by_specs[n][1], sort_by_specs[n][2]),
                  SubSeq(sort_by_specs, 1, n - 1))

\* a group's name: one given in group_ranges, "ungrouped results", or the
\* one built for a value ("<prop> with value <val>")
GroupName(name) == [kind |-> "named", name |-> name, prop |-> None, val |-> 0]

UngroupedName == [kind |-> "named", name |-> "ungrouped results", prop |-> None, val |-> 0]

ValueName(prop, val) == [kind |-> "value", name |-> None, prop |-> prop, val |-> val]

\* a group's predicate: the property read and the test on its value
InList(prop, vals) == [test |-> "in", prop |-> prop, vals |-> vals]

NotInList(prop, vals) == [test |-> "not in", prop |-> prop, vals |-> vals]

EqualTo(prop, val) == [test |-> "==", prop |-> prop, vals |-> {val}]

MapFunc(pred, obj) ==
    CASE pred.test = "in" -> get_prop(obj, pred.prop) \in pred.vals
      [] pred.test = "not in" -> get_prop(obj, pred.prop) \notin pred.vals
      [] pred.test = "==" -> \A v \in pred.vals : get_prop(obj, pred.prop) = v

\* the values of all the lists of group_ranges
RECURSIVE AllPropList(_)
AllPropList(group_ranges) ==
    IF group_ranges = <<>> THEN {}
    ELSE group_ranges[1][2] \cup AllPropList(Tail(group_ranges))

\* the loop of parse_group_by over group_ranges.items()
RECURSIVE GroupRangesLoop(_, _, _)
GroupRangesLoop(group_by, group_ranges, mappings) ==
    IF group_ranges = <<>> THEN mappings
    ELSE GroupRangesLoop(group_by, Tail(group_ranges),
                         DictUpdate(mappings, GroupName(group_ranges[1][1]),
                                    InList(group_by, group_ranges[1][2])))

\* what parse_group_by leaves in _group_by and _group_mappings
Grouping(group_by, mappings, raised) ==
    [group_by |-> group_by, mappings |-> mappings, raised |-> raised]

\* group_ranges is None (given = FALSE) or a dict of name -> values
NoRanges == [given |-> FALSE, items |-> <<>>]

Ranges(items) == [given |-> TRUE, items |-> items]

parse_group_by(ph, old_group_by, old_mappings, group_by, group_ranges, include_missing) ==
    IF check_prop_valid(ph, group_by) # None
    THEN Grouping(old_group_by, old_mappings, check_prop_valid(ph, group_by))
    ELSE IF ~(group_ranges.given /\ group_ranges.items # <<>>)
    THEN Grouping(group_by, old_mappings, None)
    ELSE LET named == GroupRangesLoop(group_by, group_ranges.items, old_mappings) IN
         IF include_missing
         THEN Grouping(group_by,
                       DictUpdate(named, UngroupedName,
                                  NotInList(group_by, AllPropList(group_ranges.items))),
                       None)
         ELSE Grouping(group_by, named, None)

\* _build_unique_val_groups: one group per value, in first-seen order
RECURSIVE build_unique_val_groups(_, _)
build_unique_val_groups(obj_list, group_by_prop) ==
    IF obj_list = <<>> THEN <<>>
    ELSE LET n == Len(obj_list)
             val == get_prop(obj_list[n], group_by_prop)
             before == build_unique_val_groups(SubSeq(obj_list, 1, n - 1), group_by_prop)
         IN IF ValueName(group_by_prop, val) \in DictKeys(before) THEN before
            ELSE Append(before, <<ValueName(group_by_prop, val), EqualTo(group_by_prop, val)>>)

\* the items of a list that pass a group's predicate, in the list's order
RECURSIVE FilterList(_, _)
FilterList(obj_list, pred) ==
    IF obj_list = <<>> THEN <<>>
    ELSE IF MapFunc(pred, Head(obj_list))
    THEN <<Head(obj_list)>> \o FilterList(Tail(obj_list), pred)
    ELSE FilterList(Tail(obj_list), pred)

\* faulty variant: a record goes to the first group it matches only
run_group_by_first_match(obj_list, group_mappings) ==
    [i \in 1..Len(group_mappings) |->
        <<group_mappings[i][1],
          SelectSeq(obj_list,
                    LAMBDA r : /\ MapFunc(group_mappings[i][2], r)
                               /\ \A j \in 1..(i - 1) : ~MapFunc(group_mappings[j][2], r))>>]

\* _run_group_by: the dict of name -> items, in the mappings' order
run_group_by(obj_list, group_mappings) ==
    [i \in 1..Len(group_mappings) |->
        <<group_mappings[i][1], FilterList(obj_list, group_mappings[i][2])>>]

\* what run_parser gives: a flat list or a dict of groups, the caller's list
\* object after the call, and the _group_mappings it leaves
FlatResult(items) == [shape |-> "list", items |-> items, groups |-> <<>>]

GroupedResult(groups) == [shape |-> "dict", items |-> <<>>, groups |-> groups]

Parsed(result, caller_list, mappings) ==
    [result |-> result, caller_list |-> caller_list, mappings |-> mappings]

\* _group_by is None or a property
NoGroupBy == None

\* faulty variant: the groups are filled from the list as it was passed in,
\* the sorted list is dropped
run_parser_body_groups_unsorted(sort_by, group_by, group_mappings, obj_list) ==
    LET sorted == IF sort_by # <<>> THEN run_sort(obj_list, sort_by) ELSE obj_list
    IN IF group_by # NoGroupBy
       THEN LET mappings == IF group_mappings = <<>>
                            THEN build_unique_val_groups(sorted, group_by)
                            ELSE group_mappings
            IN Parsed(GroupedResult(run_group_by(obj_list, mappings)), sorted, mappings)
       ELSE Parsed(FlatResult(sorted), sorted, group_mappings)

\* run_parser after its test for an empty list
run_parser_body(sort_by, group_by, group_mappings, obj_list) ==
    LET sorted == IF sort_by # <<>> THEN run_sort(obj_list, sort_by) ELSE obj_list
    IN IF group_by # NoGroupBy
       THEN LET mappings == IF group_mappings = <<>>
                            THEN build_unique_val_groups(sorted, group_by)
                            ELSE group_mappings
            IN Parsed(GroupedResult(run_group_by(sorted, mappings)), sorted, mappings)
       ELSE Parsed(FlatResult(sorted), sorted, group_mappings)

\* faulty variant: an empty list is sorted and grouped like any other
run_parser_no_empty_return(sort_by, group_by, group_mappings, obj_list) ==
    run_parser_body(sort_by, group_by, group_mappings, obj_list)

\* run_parser: `if not obj_list: return obj_list`, then sort and group
run_parser(sort_by, group_by, group_mappings, obj_list) ==
    IF obj_list = <<>> THEN Parsed(FlatResult(obj_list), obj_list, group_mappings)
    ELSE run_parser_body(sort_by, group_by, group_mappings, obj_list)

\* ------------------------------------------------------------------ enums
\* A member of an enumeration: the enumeration's class and the member's name
Member(enum, name) == [enum |-> enum, name |-> name]

\* SortOrder: ASC = False, DESC = True
SortOrder == {"ASC", "DESC"}

\* A string is the sequence of its characters; the characters of the names
Chars(name) ==
    CASE name = "FLAVOR_ID" ->
           <<"F", "L", "A", "V", "O", "R", "_", "I", "D">>
      [] name = "HYPERVISOR_ID" ->
           <<"H", "Y", "P", "E", "R", "V", "I", "S", "O", "R", "_", "I", "D">>
      [] name = "IMAGE_ID" ->
           <<"I", "M", "A", "G", "E", "_", "I", "D">>
      [] name = "PROJECT_ID" ->
           <<"P", "R", "O", "J", "E", "C", "T", "_", "I", "D">>
      [] name = "SERVER_CREATION_DATE" ->
           <<"S", "E", "R", "V", "E", "R", "_", "C", "R", "E", "A", "T", "I", "O", "N", "_", "D", "A", "T", "E">>
      [] name = "SERVER_DESCRIPTION" ->
           <<"S", "E", "R", "V", "E", "R", "_", "D", "E", "S", "C", "R", "I", "P", "T", "I", "O", "N">>
      [] name = "SERVER_ID" ->
           <<"S", "E", "R", "V", "E", "R", "_", "I", "D">>
      [] name = "SERVER_LAST_UPDATED_DATE" ->
           <<"S", "E", "R", "V", "E", "R", "_", "L", "A", "S", "T", "_", "U", "P", "D", "A", "T", "E", "D", "_", "D", "A", "T", "E">>
      [] name = "SERVER_NAME" ->
           <<"S", "E", "R", "V", "E", "R", "_", "N", "A", "M", "E">>
      [] name = "SERVER_STATUS" ->
           <<"S", "E", "R", "V", "E", "R", "_", "S", "T", "A", "T", "U", "S">>
      [] name = "USER_ID" ->
           <<"U", "S", "E", "R", "_", "I", "D">>
      [] name = "ASC" ->
           <<"A", "S", "C">>
      [] name = "DESC" ->
           <<"D", "E", "S", "C">>

LowerCase ==
    <<"a", "b", "c", "d", "e", "f", "g", "h", "i", "j", "k", "l", "m", "n", "o", "p", "q", "r", "s", "t", "u", "v", "w", "x", "y", "z">>

UpperCase ==
    <<"A", "B", "C", "D", "E", "F", "G", "H", "I", "J", "K", "L", "M", "N", "O", "P", "Q", "R", "S", "T", "U", "V", "W", "X", "Y", "Z">>

\* str.upper() and str.lower() on ASCII text
UpperChar(c) ==
    IF \E i \in 1..Len(LowerCase) : LowerCase[i] = c
    THEN UpperCase[CHOOSE i \in 1..Len(LowerCase) : LowerCase[i] = c]
    ELSE c

LowerChar(c) ==
    IF \E i \in 1..Len(UpperCase) : UpperCase[i] = c
    THEN LowerCase[CHOOSE i \in 1..Len(UpperCase) : UpperCase[i] = c]
    ELSE c

Upper(val) == [i \in 1..Len(val) |-> UpperChar(val[i])]

Lower(val) == [i \in 1..Len(val) |-> LowerChar(val[i])]

\* what a lookup gives: the exception raised, or the value returned
Looked(raised, value) == [raised |-> raised, value |-> value]

\* EnumClass[key]: the member of that name, KeyError when there is none
EnumGetItem(enum, names, key) ==
    IF \E n \in names : Chars(n) = key
    THEN Looked(None, Member(enum, CHOOSE n \in names : Chars(n) = key))
    ELSE Looked("KeyError", None)

\* faulty variant: the name is looked up as given
SortOrder_from_string_exact(val) ==
    LET found == EnumGetItem("SortOrder", SortOrder, val)
    IN IF found.raised = "KeyError" THEN Looked("ParseQueryError", None) ELSE found

\* SortOrder.from_string
SortOrder_from_string(val) ==
    LET found == EnumGetItem("SortOrder", SortOrder, Upper(val))
    IN IF found.raised = "KeyError" THEN Looked("ParseQueryError", None) ELSE found

\* ServerProperties.from_string
ServerProperties_from_string(val) ==
    LET found == EnumGetItem("ServerProperties", ServerProperties, Upper(val))
    IN IF found.raised = "KeyError" THEN Looked("ParseQueryError", None) ELSE found

\* ServerProperties.get_prop_func(prop) for a member of any enumeration:
\* the asserts on the mapping, the test `prop not in ServerProperties`,
\* then mapping[prop]
get_prop_func(prop) ==
    IF ~(ServerProperties \subseteq MappedProps) THEN Looked("AssertionError", NoPropFunc)
    ELSE IF ~(prop.enum = "ServerProperties" /\ prop.name \in ServerProperties)
    THEN Looked("QueryPropertyMappingError", NoPropFunc)
    ELSE Looked(None, ServerPropFunc(prop.name))

\* ------------------------------------------------------------------ state
VARIABLES
    client_side_handlers,   \* QueryBuilder._client_side_handlers
    prop_handler,           \* QueryBuilder._prop_handler
    server_side_handler,    \* QueryBuilder._server_side_handler
    client_side_filter,     \* QueryBuilder._client_side_filter
    server_side_filters,    \* QueryBuilder._server_side_filters
    assigned,               \* the fields parse_where has assigned so far
    first_ok,               \* the first parse_where call that returned
    last,                   \* the last call made on the builder
    handler,                \* a ClientSideHandler
    args,                   \* the arguments get_filter_func is called with
    filter_call,            \* the get_filter_func call made on `handler`
    applied,                \* the last call of the predicate it returned
    asked,                  \* the last check_supported or preset_known call
    parser_prop_handler,    \* QueryParser._prop_handler
    sort_by,                \* QueryParser._sort_by
    group_by,               \* QueryParser._group_by
    group_mappings,         \* QueryParser._group_mappings
    caller_list,            \* the list object last passed to run_parser
    sort_args,              \* the last parse_sort_by call
    group_args,             \* the last parse_group_by call
    plast,                  \* the last call made on the parser
    lookup                  \* the last call made on an enumeration

builder_vars == <<client_side_handlers, prop_handler, server_side_handler,
                  client_side_filter, server_side_filters, assigned, first_ok, last>>

handler_vars == <<handler, args, filter_call, applied, asked>>

parser_vars == <<parser_prop_handler, sort_by, group_by, group_mappings, caller_list,
                 sort_args, group_args, plast>>

enum_vars == <<lookup>>

vars == <<builder_vars, handler_vars, parser_vars, enum_vars>>

\* the two mapping errors parse_where raises
MappingErrors == {"QueryPropertyMappingError", "QueryPresetMappingError"}

NoCall == [op |-> "none"]

\* a parse_where call: its arguments, whether the call before it raised a
\* mapping error, the fields before and after it, and its outcome
WhereCall(preset, prop, kw, prev_mapping_error, before_csf, before_ssf, out) ==
    [op |-> "parse_where", preset |-> preset, prop |-> prop, kwargs |-> kw,
     prev_mapping_error |-> prev_mapping_error, before_csf |-> before_csf, before_ssf |-> before_ssf,
     after_csf |-> out.csf, after_ssf |-> out.ssf,
     raised |-> out.raised, msg |-> out.msg, reason |-> out.reason, calls |-> out.calls]

\* QueryBuilder.__init__
BuilderInit ==
    /\ client_side_handlers \in HandlerLists(MaxHandlers)
    /\ prop_handler \in PropHandlers
    /\ server_side_handler \in ServerSideHandlers
    /\ client_side_filter = NoPredicate
    /\ server_side_filters = NoFilters
    /\ assigned = {}
    /\ first_ok = NoCall
    /\ last = NoCall

ParseWhere(preset, prop, kw) ==
    LET out == parse_where(client_side_handlers, prop_handler, server_side_handler,
                           client_side_filter, server_side_filters, preset, prop, kw)
        call == WhereCall(preset, prop, kw,
                          last # NoCall /\ last.raised \in MappingErrors,
                          client_side_filter, server_side_filters, out)
    IN /\ client_side_filter' = out.csf
       /\ server_side_filters' = out.ssf
       /\ assigned' = assigned \cup out.assigned
       /\ first_ok' = IF first_ok = NoCall /\ out.raised = None THEN call ELSE first_ok
       /\ last' = call
       /\ UNCHANGED <<client_side_handlers, prop_handler, server_side_handler>>
       /\ UNCHANGED <<handler_vars, parser_vars, enum_vars>>

BuilderNext ==
    \E preset \in Presets, prop \in QueriedProps, kw \in BuilderKwargs :
        ParseWhere(preset, prop, kw)

\* a builder nobody calls
BuilderIdle ==
    /\ client_side_handlers = <<>>
    /\ prop_handler = QueriedProps
    /\ server_side_handler = NoServerSideHandler
    /\ client_side_filter = NoPredicate
    /\ server_side_filters = NoFilters
    /\ assigned = {}
    /\ first_ok = NoCall
    /\ last = NoCall

\* -------------------------------------------- ClientSideHandler under call
\* the signatures of the filter functions a handler is given: an optional
\* parameter a, an optional parameter b (positional-or-keyword or
\* keyword-only), *args and **kwargs, in the order Python allows
SigA ==
    {<<>>} \cup {<<Param("a", "POSITIONAL_OR_KEYWORD", d, ann)>> :
                    d \in BOOLEAN, ann \in {"empty", "int"}}

SigB(kind) == {<<Param("b", kind, d, "empty")>> : d \in BOOLEAN}

SigVarArgs == {<<>>, <<Param("args", "VAR_POSITIONAL", FALSE, "empty")>>}

SigVarKwargs == {<<>>, <<Param("kwargs", "VAR_KEYWORD", FALSE, "empty")>>}

\* Python rejects a parameter without default after one with a default
SigAllowed(params) ==
    \A i, j \in 1..Len(params) :
        (i < j /\ params[i].kind = "POSITIONAL_OR_KEYWORD"
               /\ params[j].kind = "POSITIONAL_OR_KEYWORD"
               /\ params[i].has_default) => params[j].has_default

Signatures ==
    {params \in
        {a \o b \o va \o vk : a \in SigA,
                              b \in {<<>>} \cup SigB("POSITIONAL_OR_KEYWORD"),
                              va \in SigVarArgs, vk \in SigVarKwargs}
        \cup {a \o va \o b \o vk : a \in SigA, b \in SigB("KEYWORD_ONLY"),
                                   va \in SigVarArgs, vk \in SigVarKwargs}
     : SigAllowed(params)}

\* the handlers under call: EQUAL_TO mapped to every property or to
\* SERVER_NAME alone, the other presets unmapped; one filter function
\* registered under every preset, or none at all
TestMappings ==
    {[p \in Presets |-> IF p = "EQUAL_TO" THEN e ELSE NoEntry] :
        e \in {WildcardEntry, PropsEntry({"SERVER_NAME"})}}

TestFunctions ==
    {[p \in Presets |-> NoFilterFunc]}
      \cup {[p \in Presets |-> FilterFunc("_filter_func", params)] : params \in Signatures}

TestHandlers == {Handler(m, f) : m \in TestMappings, f \in TestFunctions}

\* the kwargs get_filter_func is called with: None, or a dict over the
\* keys a, b and x
TestKwargs ==
    {KwNone} \cup
    {KwDict(a \cup b \cup x) : a \in {{}, {<<"a", "int">>}, {<<"a", "str">>}},
                               b \in {{}, {<<"b", "str">>}},
                               x \in {{}, {<<"x", "str">>}}}

\* the records a predicate is applied to
TestItems ==
    {Item(f, r) : f \in {{}, {"id", "name", "created_at"}}, r \in BOOLEAN}

Args(preset, prop, prop_func, kw) ==
    [preset |-> preset, prop |-> prop, prop_func |-> prop_func, kwargs |-> kw]

TestArgs ==
    {Args(preset, prop, pf, kw) :
        preset \in {"EQUAL_TO", "OLDER_THAN"}, prop \in {"SERVER_ID", "SERVER_NAME"},
        pf \in {"subscript", "attribute"}, kw \in TestKwargs}

\* the accessor the caller passes for args.prop
ArgsPropFunc(a) ==
    IF a.prop_func = "subscript" THEN ServerPropFunc(a.prop) ELSE AttrPropFunc(a.prop)

HandlerIdle ==
    /\ handler = Handler([p \in Presets |-> NoEntry], [p \in Presets |-> NoFilterFunc])
    /\ args = Args(None, None, None, KwNone)
    /\ filter_call = NoCall
    /\ applied = NoCall
    /\ asked = NoCall

\* ClientSideHandler.__init__, and the arguments of the call to come
HandlerInit ==
    /\ handler \in TestHandlers
    /\ args \in TestArgs
    /\ filter_call = NoCall
    /\ applied = NoCall
    /\ asked = NoCall

\* handler.get_filter_func(preset, prop, prop_func, filter_func_kwargs)
GetFilterFunc ==
    LET res == get_filter_func(handler, args.preset, args.prop, ArgsPropFunc(args),
                               args.kwargs)
    IN /\ filter_call' = [op |-> "get_filter_func", raised |-> res.raised, msg |-> res.msg,
                          reason |-> res.reason, value |-> res.value]
       /\ applied' = NoCall
       /\ UNCHANGED <<handler, args, asked>>
       /\ UNCHANGED <<builder_vars, parser_vars, enum_vars>>

\* calling the predicate the last get_filter_func call returned
CallPredicate(item) ==
    /\ filter_call # NoCall
    /\ filter_call.value.set
    /\ LET res == ApplyPredicate(filter_call.value, item)
       IN applied' = [op |-> "predicate", item |-> item, raised |-> res.raised,
                      value |-> res.value, invoked |-> res.invoked]
    /\ UNCHANGED <<handler, args, filter_call, asked>>
    /\ UNCHANGED <<builder_vars, parser_vars, enum_vars>>

\* the mappings a handler is asked about: every preset unmapped, mapped to
\* every property, to no property or to SERVER_NAME alone
SupportEntries == {NoEntry, WildcardEntry, PropsEntry({}), PropsEntry({"SERVER_NAME"})}

SupportHandlers == {Handler(m, HandlerFunctions) : m \in [Presets -> SupportEntries]}

\* ClientSideHandler.__init__ of a handler that is only asked
SupportInit ==
    /\ handler \in SupportHandlers
    /\ args = Args(None, None, None, KwNone)
    /\ filter_call = NoCall
    /\ applied = NoCall
    /\ asked = NoCall

\* handler.check_supported(preset, prop)
CheckSupported(preset, prop) ==
    /\ asked' = [op |-> "check_supported", preset |-> preset, prop |-> prop,
                 value |-> check_supported(handler, preset, prop)]
    /\ UNCHANGED <<handler, args, filter_call, applied>>
    /\ UNCHANGED <<builder_vars, parser_vars, enum_vars>>

\* handler.preset_known(preset)
PresetKnown(preset) ==
    /\ asked' = [op |-> "preset_known", preset |-> preset, prop |-> None,
                 value |-> preset_known(handler, preset)]
    /\ UNCHANGED <<handler, args, filter_call, applied>>
    /\ UNCHANGED <<builder_vars, parser_vars, enum_vars>>

\* ------------------------------------------------- QueryParser under call
\* the records given to run_parser: record i of MaxRecords, with its values
Record(i) ==
    [uid |-> i,
     vals |-> [p \in ParserProps |->
                  IF p = "SERVER_ID" THEN (((i - 1) \div 2) % 2) + 1 ELSE (i % 2) + 1]]

Records == {Record(i) : i \in 1..MaxRecords}

\* the lists of records, each record at most once
ObjLists ==
    UNION { {l \in [1..k -> Records] : \A i, j \in 1..k : l[i] = l[j] => i = j}
            : k \in 0..MaxRecords }

\* the (property, descending) pairs given to parse_sort_by; the prop
\* handler has no mapping for SERVER_CREATION_DATE
SortSpecs ==
    {<<p, d>> : p \in ParserProps, d \in BOOLEAN} \cup {<<"SERVER_CREATION_DATE", FALSE>>}

SortArgs == UNION { [1..k -> SortSpecs] : k \in 0..MaxSpecs }

\* the group_ranges given to parse_group_by
GroupRanges ==
    { NoRanges,
      Ranges(<<<<"low", {1}>>>>),
      Ranges(<<<<"low", {1}>>, <<"high", {1, 2}>>>>) }

\* the properties given to parse_group_by; the prop handler has no mapping
\* for SERVER_CREATION_DATE
GroupProps == {"SERVER_ID", "SERVER_CREATION_DATE"}

NoSortCall == [called |-> FALSE, args |-> <<>>, raised |-> None, replaced |-> FALSE]

\* no parse_group_by call yet; `configured` once some call has returned,
\* `replaced` when a call before the last one had returned
NoGroupCall ==
    [called |-> FALSE, prop |-> None, ranges |-> NoRanges, include_missing |-> FALSE,
     raised |-> None, configured |-> FALSE, replaced |-> FALSE]

\* QueryParser.__init__
ParserInit ==
    /\ parser_prop_handler = ParserProps
    /\ sort_by = <<>>
    /\ group_by = NoGroupBy
    /\ group_mappings = <<>>
    /\ caller_list = <<>>
    /\ sort_args = NoSortCall
    /\ group_args = NoGroupCall
    /\ plast = NoCall

ParserIdle == ParserInit

ParseSortBy(specs) ==
    LET out == parse_sort_by(parser_prop_handler, sort_by, specs) IN
    /\ sort_by' = out.value
    /\ sort_args' = [called |-> TRUE, args |-> specs, raised |-> out.raised,
                     replaced |-> sort_by # <<>>]
    /\ plast' = [op |-> "parse_sort_by", raised |-> out.raised, before_list |-> caller_list]
    /\ UNCHANGED <<parser_prop_handler, group_by, group_mappings, caller_list, group_args>>
    /\ UNCHANGED <<builder_vars, handler_vars, enum_vars>>

ParseGroupBy(prop, group_ranges, include_missing) ==
    LET out == parse_group_by(parser_prop_handler, group_by, group_mappings, prop,
                              group_ranges, include_missing)
    IN /\ group_by' = out.group_by
       /\ group_mappings' = out.mappings
       /\ group_args' = [called |-> TRUE, prop |-> prop, ranges |-> group_ranges,
                         include_missing |-> include_missing, raised |-> out.raised,
                         configured |-> group_args.configured \/ out.raised = None,
                         replaced |-> group_args.configured]
       /\ plast' = [op |-> "parse_group_by", raised |-> out.raised,
                    recorded |-> (out.group_by # group_by \/ out.mappings # group_mappings)]
       /\ UNCHANGED <<parser_prop_handler, sort_by, caller_list, sort_args>>
       /\ UNCHANGED <<builder_vars, handler_vars, enum_vars>>

RunParser(obj_list) ==
    LET out == run_parser(sort_by, group_by, group_mappings, obj_list) IN
    /\ caller_list' = out.caller_list
    /\ group_mappings' = out.mappings
    /\ plast' = [op |-> "run_parser", obj_list |-> obj_list, result |-> out.result]
    /\ UNCHANGED <<parser_prop_handler, sort_by, group_by, sort_args, group_args>>
    /\ UNCHANGED <<builder_vars, handler_vars, enum_vars>>

\* --------------------------------------------------- enums under call
\* members of other enumerations of the repository: the ServerProperties of
\* enums.query.server_properties, which has the same names, and SortOrder
OtherMembers ==
    {Member("enums.query.server_properties.ServerProperties", n) : n \in ServerProperties}
        \cup {Member("SortOrder", n) : n \in SortOrder}

PropInputs == {Member("ServerProperties", n) : n \in ServerProperties} \cup OtherMembers

\* a name with its first letter in upper case and the rest in lower case,
\* and with every second letter in lower case
Capitalized(val) == [i \in 1..Len(val) |-> IF i = 1 THEN UpperChar(val[i]) ELSE LowerChar(val[i])]

Alternating(val) == [i \in 1..Len(val) |-> IF i % 2 = 0 THEN LowerChar(val[i]) ELSE val[i]]

\* the strings parsed: the member names in several letter cases, and strings
\* that are no name (a name cut short, a name with a trailing space, "")
StringInputs ==
    UNION { {Chars(n), Lower(Chars(n)), Capitalized(Chars(n)), Alternating(Chars(n)),
             Tail(Chars(n)), Lower(Tail(Chars(n))), Append(Chars(n), " ")}
            : n \in ServerProperties \cup SortOrder } \cup {<<>>}

EnumIdle == lookup = NoCall

GetPropFunc(prop) ==
    /\ lookup' = [op |-> "get_prop_func", arg |-> prop, out |-> get_prop_func(prop)]
    /\ UNCHANGED <<builder_vars, handler_vars, parser_vars>>

SortOrderFromString(val) ==
    /\ lookup' = [op |-> "SortOrder.from_string", arg |-> val,
                  out |-> SortOrder_from_string(val)]
    /\ UNCHANGED <<builder_vars, handler_vars, parser_vars>>

ServerPropertiesFromString(val) ==
    /\ lookup' = [op |-> "ServerProperties.from_string", arg |-> val,
                  out |-> ServerProperties_from_string(val)]
    /\ UNCHANGED <<builder_vars, handler_vars, parser_vars>>

\* ---------------------------------------------------------- specifications
\* a QueryBuilder under any sequence of parse_where calls
Init == BuilderInit /\ HandlerIdle /\ ParserIdle /\ EnumIdle

Next == BuilderNext

Spec == Init /\ [][Next]_vars

\* a ClientSideHandler: one get_filter_func call and calls of its predicate
InitHandler == HandlerInit /\ BuilderIdle /\ ParserIdle /\ EnumIdle

NextHandler ==
    \/ GetFilterFunc
    \/ \E item \in TestItems : CallPredicate(item)

SpecHandler == InitHandler /\ [][NextHandler]_vars

\* a ClientSideHandler asked what it supports
InitSupport == SupportInit /\ BuilderIdle /\ ParserIdle /\ EnumIdle

NextSupport ==
    \/ \E preset \in Presets, prop \in QueriedProps : CheckSupported(preset, prop)
    \/ \E preset \in Presets : PresetKnown(preset)

SpecSupport == InitSupport /\ [][NextSupport]_vars

\* a QueryParser that is configured to sort, never to group
InitSort == ParserInit /\ BuilderIdle /\ HandlerIdle /\ EnumIdle

NextSort ==
    \/ \E specs \in SortArgs : ParseSortBy(specs)
    \/ \E obj_list \in ObjLists : RunParser(obj_list)

SpecSort == InitSort /\ [][NextSort]_vars

\* a QueryParser that is configured to group, never to sort
NextGroup ==
    \/ \E prop \in GroupProps, r \in GroupRanges, m \in BOOLEAN : ParseGroupBy(prop, r, m)
    \/ \E obj_list \in ObjLists : RunParser(obj_list)

SpecGroup == InitSort /\ [][NextGroup]_vars

\* a QueryParser being configured, before it is run on any data
NextConfig ==
    \/ \E specs \in SortArgs : ParseSortBy(specs)
    \/ \E prop \in GroupProps, r \in GroupRanges, m \in BOOLEAN : ParseGroupBy(prop, r, m)

SpecConfig == InitSort /\ [][NextConfig]_vars

\* a QueryParser under any sequence of its three calls
ParserSortArgs == {specs \in SortArgs : Len(specs) <= 1}

AllRecords == [i \in 1..MaxRecords |-> Record(i)]

Reversed(l) == [i \in 1..Len(l) |-> l[Len(l) + 1 - i]]

Rotated(l, k) == [i \in 1..Len(l) |-> l[((i + k - 1) % Len(l)) + 1]]

\* the empty list, and all the records in a rotation of their order or of
\* its reverse
ParserLists ==
    {<<>>} \cup {Rotated(AllRecords, k) : k \in 0..(MaxRecords - 1)}
           \cup {Rotated(Reversed(AllRecords), k) : k \in 0..(MaxRecords - 1)}

NextParser ==
    \/ \E specs \in ParserSortArgs : ParseSortBy(specs)
    \/ \E prop \in GroupProps, r \in GroupRanges, m \in BOOLEAN : ParseGroupBy(prop, r, m)
    \/ \E obj_list \in ParserLists : RunParser(obj_list)

SpecParser == InitSort /\ [][NextParser]_vars

\* a QueryParser whose grouping is configured again and again, over both
\* properties its prop handler supports
NextRegroup ==
    \/ \E prop \in ParserProps, r \in GroupRanges, m \in BOOLEAN : ParseGroupBy(prop, r, m)
    \/ \E obj_list \in ParserLists : RunParser(obj_list)

SpecRegroup == InitSort /\ [][NextRegroup]_vars

\* the enumerations: lookups of accessors and of members by name
InitEnums == EnumIdle /\ BuilderIdle /\ HandlerIdle /\ ParserIdle

NextEnums ==
    \/ \E prop \in PropInputs : GetPropFunc(prop)
    \/ \E val \in StringInputs : SortOrderFromString(val)
    \/ \E val \in StringInputs : ServerPropertiesFromString(val)

SpecEnums == InitEnums /\ [][NextEnums]_vars

\* ------------------------------------------------- QueryBuilder properties
\* the handlers of the builder that support a pair, and the first of them
SupportingHandlers(preset, prop) ==
    {i \in 1..Len(client_side_handlers) :
        check_supported(client_side_handlers[i], preset, prop)}

FirstSupporting(preset, prop) ==
    CHOOSE i \in SupportingHandlers(preset, prop) :
        \A j \in SupportingHandlers(preset, prop) : i <= j

PresetKnownToSome(preset) ==
    \E i \in 1..Len(client_side_handlers) : preset_known(client_side_handlers[i], preset)

\* the filter function the first supporting handler has for the preset
MatchedFilterFunc(preset, prop) ==
    client_side_handlers[FirstSupporting(preset, prop)].functions[preset]

\* the names of the parameters a call must supply
RequiredParams(func) ==
    {func.params[i].name : i \in
        {j \in 1..Len(func.params) :
            func.params[j].kind \in {"POSITIONAL_OR_KEYWORD", "KEYWORD_ONLY"}
              /\ ~func.params[j].has_default}}

\* kwargs that give each required parameter a value of its annotated type
\* and nothing else; no kwargs at all (None) when nothing is required
MinimalValidKwargs(func, kw) ==
    IF kw.is_none THEN RequiredParams(func) = {}
    ELSE /\ KwKeys(kw) = RequiredParams(func)
         /\ \A i \in 1..Len(func.params) :
               (func.params[i].name \in KwKeys(kw)
                  /\ func.params[i].annotation \notin {"Any", "empty"})
               => KwValue(kw, func.params[i].name) = func.params[i].annotation

\* a dict of kwargs the matched function's signature accepts
KwargsAccepted(func, kw) ==
    /\ ~kw.is_none
    /\ RequiredParams(func) \subseteq KwKeys(kw)
    /\ \A i \in 1..Len(func.params) :
          (func.params[i].name \in KwKeys(kw)
             /\ func.params[i].annotation \notin {"Any", "empty"})
          => KwValue(kw, func.params[i].name) = func.params[i].annotation
    /\ \/ has_varargs(func.params)
       \/ has_varkwargs(func.params)
       \/ KwKeys(kw) \subseteq {func.params[i].name : i \in 1..Len(func.params)}

\* a request the builder's collaborators can resolve
RequestValid(preset, prop, kw) ==
    /\ prop \in prop_handler
    /\ SupportingHandlers(preset, prop) # {}
    /\ MatchedFilterFunc(preset, prop).defined
    /\ KwargsAccepted(MatchedFilterFunc(preset, prop), kw)
    /\ server_side_handler.present

Made(call, name) == \E i \in 1..Len(call.calls) : call.calls[i][1] = name

ConsultedClientSide(call) ==
    Made(call, "preset_known") \/ Made(call, "check_supported") \/ Made(call, "get_filter_func")

\* C1: once a parse_where call has returned, every further call raises
\* ParseQueryError and the two fields keep the values that call stored.
C1_SecondWhereRaises ==
    first_ok # NoCall =>
        /\ client_side_filter = first_ok.after_csf
        /\ server_side_filters = first_ok.after_ssf
        /\ last # first_ok => last.raised = "ParseQueryError"

C1_Witness ==
    /\ first_ok # NoCall
    /\ last # first_ok
    /\ last.raised = "ParseQueryError"
    /\ <<last.preset, last.prop, last.kwargs>>
         # <<first_ok.preset, first_ok.prop, first_ok.kwargs>>
    /\ RequestValid(last.preset, last.prop, last.kwargs)

\* C2: the builder is either empty (both fields unset) or filter-set (the
\* predicate stored and the server-side handler's answer for the same
\* request stored with it).
C2_EmptyOrFilterSet ==
    \/ ~client_side_filter.set /\ ~server_side_filters.set
    \/ /\ client_side_filter.set
       /\ "server_side_filters" \in assigned
       /\ first_ok # NoCall
       /\ server_side_filters
            = ServerSideGetFilters(server_side_handler, first_ok.preset, first_ok.prop,
                                   first_ok.kwargs)

\* C3: a call that fails with a property or preset mapping error leaves
\* both fields unset, and the call after it does not raise ParseQueryError:
\* it succeeds when its request is valid.
C3_MappingErrorLeavesEmpty ==
    last # NoCall =>
        /\ last.raised \in MappingErrors =>
              /\ ~client_side_filter.set
              /\ ~server_side_filters.set
              /\ assigned = {}
        /\ last.prev_mapping_error =>
              /\ last.raised # "ParseQueryError"
              /\ RequestValid(last.preset, last.prop, last.kwargs) => last.raised = None

C3_Witness ==
    /\ last # NoCall
    /\ last.prev_mapping_error
    /\ last.raised = None
    /\ client_side_filter.set

\* C4: parse_where reports the first failing check in the order: filter
\* already set, property without accessor, no client-side handler, kwargs
\* validation; the server-side handler is queried only when all four pass,
\* and no client-side handler is consulted for an unmapped property.
C4_ChecksInOrder ==
    last # NoCall =>
        LET already == last.before_csf.set
            no_accessor == last.prop \notin prop_handler
            no_handler == SupportingHandlers(last.preset, last.prop) = {}
            chk == check_filter_func(MatchedFilterFunc(last.preset, last.prop), last.kwargs)
        IN /\ already => last.raised = "ParseQueryError" /\ last.calls = <<>>
           /\ (~already /\ no_accessor) =>
                 /\ last.raised = "QueryPropertyMappingError"
                 /\ ~ConsultedClientSide(last)
           /\ (~already /\ ~no_accessor /\ no_handler) =>
                 /\ last.raised = "QueryPresetMappingError"
                 /\ ~Made(last, "get_filter_func")
           /\ (~already /\ ~no_accessor /\ ~no_handler /\ chk.raised = None /\ ~chk.valid) =>
                 /\ last.raised = "QueryPresetMappingError"
                 /\ last.msg = "Preset Argument Error"
           /\ Made(last, "get_filters") =>
                 ~already /\ ~no_accessor /\ ~no_handler /\ chk.raised = None /\ chk.valid

C4_Witness ==
    /\ last # NoCall
    /\ last.prop \notin prop_handler
    /\ Len(client_side_handlers) > 0
    /\ ~PresetKnownToSome(last.preset)
    /\ last.raised = "QueryPropertyMappingError"
    /\ last.calls = <<Call("get_prop_func", 0)>>

\* C5: when no handler knows the preset the builder raises one
\* QueryPresetMappingError, when some handler knows it but none supports the
\* pair it raises another with a different message; in neither case is a
\* handler returned.
C5_DistinctHandlerErrors ==
    (last # NoCall /\ ~last.before_csf.set /\ last.prop \in prop_handler) =>
        /\ ~PresetKnownToSome(last.preset) =>
              /\ last.raised = "QueryPresetMappingError"
              /\ last.msg = "No client-side handler found for preset - property pair"
              /\ ~Made(last, "get_filter_func")
              /\ ~client_side_filter.set
        /\ (PresetKnownToSome(last.preset)
              /\ SupportingHandlers(last.preset, last.prop) = {}) =>
              /\ last.raised = "QueryPresetMappingError"
              /\ last.msg = "No client-side handler found for preset"
              /\ ~Made(last, "get_filter_func")
              /\ ~client_side_filter.set

C5_Witness ==
    /\ last # NoCall
    /\ ~last.before_csf.set
    /\ last.prop \in prop_handler
    /\ PresetKnownToSome(last.preset)
    /\ SupportingHandlers(last.preset, last.prop) = {}
    /\ last.msg = "No client-side handler found for preset"

\* C8: for a supported pair and a valid minimal kwargs set, None included
\* when the matched function requires nothing, check_supported is true and
\* get_filter_func returns a predicate, which parse_where stores.
C8_MinimalKwargsAccepted ==
    (/\ last # NoCall
     /\ ~last.before_csf.set
     /\ last.prop \in prop_handler
     /\ SupportingHandlers(last.preset, last.prop) # {}
     /\ MinimalValidKwargs(MatchedFilterFunc(last.preset, last.prop), last.kwargs))
    => /\ Made(last, "get_filter_func")
       /\ client_side_filter.set

\* a pair supported client-side with accepted kwargs and no server-side
\* mapping, on an empty builder
C9_Case ==
    /\ last # NoCall
    /\ ~last.before_csf.set
    /\ last.prop \in prop_handler
    /\ SupportingHandlers(last.preset, last.prop) # {}
    /\ KwargsAccepted(MatchedFilterFunc(last.preset, last.prop), last.kwargs)
    /\ server_side_handler.present
    /\ <<last.preset, last.prop>> \notin server_side_handler.pairs

\* C9: when the server-side handler has no mapping for a pair supported
\* client-side, parse_where returns with the predicate stored and no
\* server-side filters.
C9_FallbackToClientSide ==
    C9_Case =>
        /\ last.raised = None
        /\ client_side_filter.set
        /\ ~server_side_filters.set
        /\ Made(last, "get_filters")

C9_Witness == C9_Case /\ last.raised = None /\ client_side_filter.set

\* -------------------------------------------- ClientSideHandler properties
\* the accessor of the call cannot find its key in the record
AccessorFails(item) == ArgsPropFunc(args).key \notin item.fields

\* C6: a predicate applied to a record without the property returns false,
\* raises nothing and does not invoke the raw filter function.
C6_MissingPropertyExcluded ==
    (applied # NoCall /\ AccessorFails(applied.item)) =>
        /\ applied.raised = None
        /\ applied.value = FALSE
        /\ ~applied.invoked

\* the parameters without default (the first aside) that the kwargs of the
\* call omit
OmittedParams ==
    RequiredParams(handler.functions[args.preset]) \ KwKeys(args.kwargs)

\* C7: for a supported pair, supplied kwargs that omit a parameter without
\* default make get_filter_func raise QueryPresetMappingError naming that
\* parameter, and no predicate is returned.
C7_MissingRequiredParamRejected ==
    (/\ filter_call # NoCall
     /\ check_supported(handler, args.preset, args.prop)
     /\ handler.functions[args.preset].defined
     /\ ~args.kwargs.is_none
     /\ OmittedParams # {})
    => /\ filter_call.raised = "QueryPresetMappingError"
       /\ filter_call.reason.kind = "expected_but_not_given"
       /\ filter_call.reason.names \subseteq OmittedParams
       /\ ~filter_call.value.set

\* the presets that are keys of the handler's mappings, and the properties
\* an entry covers
MappedPresets == {p \in Presets : handler.mappings[p] # NoEntry}

Covers(entry, prop) == entry = WildcardEntry \/ prop \in entry.props

\* C21: check_supported(preset, property) is true exactly when the mapping
\* has an entry for the preset that lists the property or is the wildcard;
\* preset_known(preset) is true exactly when the preset has an entry; so a
\* supported pair is always of a known preset.
C21_SupportedIffMapped ==
    /\ (asked # NoCall /\ asked.op = "check_supported") =>
          /\ asked.value <=> (asked.preset \in MappedPresets
                                /\ Covers(handler.mappings[asked.preset], asked.prop))
          /\ asked.value => preset_known(handler, asked.preset)
    /\ (asked # NoCall /\ asked.op = "preset_known") =>
          (asked.value <=> asked.preset \in MappedPresets)

\* a pair supported through the wildcard alone, on a handler that also has a
\* known preset with an empty list
C21_Witness ==
    /\ asked # NoCall
    /\ asked.op = "check_supported"
    /\ asked.value
    /\ handler.mappings[asked.preset] = WildcardEntry
    /\ \E p \in MappedPresets :
          /\ preset_known(handler, p)
          /\ ~check_supported(handler, p, asked.prop)

\* C22: get_filter_func raises QueryPresetMappingError ("Preset Not Found")
\* and returns no predicate whenever check_supported is false for the pair,
\* the preset being unknown or known without the property; the function
\* registered under the preset is not used: its kwargs are never validated.
C22_UnsupportedPairRaises ==
    (filter_call # NoCall /\ ~check_supported(handler, args.preset, args.prop)) =>
        /\ filter_call.raised = "QueryPresetMappingError"
        /\ filter_call.msg = "Preset Not Found"
        /\ filter_call.reason = NoReason
        /\ ~filter_call.value.set

\* a known preset that does not list the property, its function registered
\* and the kwargs such that the function would accept them
C22_Witness ==
    /\ filter_call # NoCall
    /\ preset_known(handler, args.preset)
    /\ ~check_supported(handler, args.preset, args.prop)
    /\ handler.functions[args.preset].defined
    /\ check_filter_func(handler.functions[args.preset], args.kwargs).valid
    /\ filter_call.raised = "QueryPresetMappingError"
    /\ ~filter_call.value.set

\* every value the kwargs give to a declared parameter has the parameter's
\* annotated type
GivenTypesMatch(func, kw) ==
    \A i \in 1..Len(func.params) :
        (func.params[i].name \in KwKeys(kw)
           /\ func.params[i].annotation \notin {"Any", "empty"})
        => KwValue(kw, func.params[i].name) = func.params[i].annotation

\* C23: a parameter without default that the kwargs omit is a validation
\* failure only when the filter function takes no **kwargs: for a function
\* with **kwargs, kwargs that omit such a parameter (and are otherwise
\* well-typed) pass validation and get_filter_func returns a predicate.
C23_VarKwargsExemptsMissing ==
    (/\ filter_call # NoCall
     /\ check_supported(handler, args.preset, args.prop)
     /\ handler.functions[args.preset].defined
     /\ ~args.kwargs.is_none
     /\ has_varkwargs(handler.functions[args.preset].params))
    => /\ filter_call.reason.kind # "expected_but_not_given"
       /\ (OmittedParams # {} /\ GivenTypesMatch(handler.functions[args.preset], args.kwargs))
             => (filter_call.raised = None /\ filter_call.value.set)

\* the keys of the call's kwargs that name no parameter of the function
ExtraKeys ==
    KwKeys(args.kwargs)
      \ {handler.functions[args.preset].params[i].name :
            i \in 1..Len(handler.functions[args.preset].params)}

\* get_filter_func was called for a supported pair with kwargs that hold a
\* key naming no parameter
C24_Case ==
    /\ filter_call # NoCall
    /\ check_supported(handler, args.preset, args.prop)
    /\ handler.functions[args.preset].defined
    /\ ~args.kwargs.is_none
    /\ ExtraKeys # {}

\* C24: kwargs with a key that names no parameter make get_filter_func raise
\* QueryPresetMappingError when the function takes neither *args nor
\* **kwargs; when it takes either, the extra keys are never the reason of a
\* failure: kwargs that supply every required parameter with values of the
\* annotated types pass.
C24_UnexpectedKwargs ==
    C24_Case =>
        LET params == handler.functions[args.preset].params IN
        IF ~has_varargs(params) /\ ~has_varkwargs(params)
        THEN /\ filter_call.raised = "QueryPresetMappingError"
             /\ filter_call.msg = "Preset Argument Error"
             /\ ~filter_call.value.set
             /\ filter_call.reason.kind = "unexpected_arguments"
                   => filter_call.reason.names = ExtraKeys
        ELSE /\ filter_call.reason.kind # "unexpected_arguments"
             /\ (OmittedParams = {}
                   /\ GivenTypesMatch(handler.functions[args.preset], args.kwargs))
                   => (filter_call.raised = None /\ filter_call.value.set)

\* a function with *args and no **kwargs, given a key it does not declare
C24_Witness ==
    /\ C24_Case
    /\ has_varargs(handler.functions[args.preset].params)
    /\ ~has_varkwargs(handler.functions[args.preset].params)
    /\ Len(handler.functions[args.preset].params) >= 2
    /\ filter_call.raised = None
    /\ filter_call.value.set

\* the handlers parse_where delegated to: the indexes of its get_filter_func
\* calls
Delegates(call) ==
    {call.calls[k][2] : k \in {n \in 1..Len(call.calls) : call.calls[n][1] = "get_filter_func"}}

\* C20: parse_where delegates to the handler of lowest index in the list
\* that supports the (preset, property) pair, also when several support it:
\* get_filter_func is called on that handler only, no handler after it is
\* asked, and the predicate stored is built from its filter function.
C20_FirstMatchWins ==
    (last # NoCall /\ ~last.before_csf.set /\ last.prop \in prop_handler
       /\ SupportingHandlers(last.preset, last.prop) # {}) =>
        /\ Delegates(last) = {FirstSupporting(last.preset, last.prop)}
        /\ \A k \in 1..Len(last.calls) :
              last.calls[k][1] = "check_supported"
                 => last.calls[k][2] <= FirstSupporting(last.preset, last.prop)
        /\ last.raised = None =>
              last.after_csf.filter_func = MatchedFilterFunc(last.preset, last.prop)

C20_Witness ==
    /\ last # NoCall
    /\ last.raised = None
    /\ Cardinality(SupportingHandlers(last.preset, last.prop)) >= 2
    /\ \E i \in SupportingHandlers(last.preset, last.prop) :
          client_side_handlers[i].functions[last.preset]
             # MatchedFilterFunc(last.preset, last.prop)
    /\ client_side_filter.filter_func = MatchedFilterFunc(last.preset, last.prop)

\* ------------------------------------------------- QueryParser properties
\* the same records, each as often
SameRecords(a, b) ==
    /\ Len(a) = Len(b)
    /\ \A r \in Records :
          Cardinality({i \in 1..Len(a) : a[i] = r}) = Cardinality({i \in 1..Len(b) : b[i] = r})

\* x comes strictly before y under the specs: on the first spec whose key
\* tells them apart, x has the smaller key (the larger when descending)
RECURSIVE StrictlyBefore(_, _, _)
StrictlyBefore(x, y, specs) ==
    IF specs = <<>> THEN FALSE
    ELSE IF get_prop(x, specs[1][1]) = get_prop(y, specs[1][1])
    THEN StrictlyBefore(x, y, Tail(specs))
    ELSE GoesBefore(x, y, specs[1][1], specs[1][2])

\* no record of the list comes after one it is strictly before
OrderedBy(items, specs) ==
    \A i, j \in 1..Len(items) : i < j => ~StrictlyBefore(items[j], items[i], specs)

DistinctProps(specs) ==
    \A i, j \in 1..Len(specs) : specs[i][1] = specs[j][1] => i = j

\* run_parser ran on a parser whose last parse_sort_by call returned and
\* replaced an earlier sort configuration
C10_Case ==
    /\ plast # NoCall
    /\ plast.op = "run_parser"
    /\ group_by = NoGroupBy
    /\ sort_args.called
    /\ sort_args.replaced
    /\ sort_args.raised = None

\* C10: parse_sort_by replaces the sort configuration and sorts nothing:
\* after parse_sort_by(S1) and parse_sort_by(S2), run_parser returns the
\* records ordered by S2 alone, as a parser configured with S2 only would,
\* and in their input order when S2 is empty.
C10_SortByReplaces ==
    /\ (plast # NoCall /\ plast.op = "parse_sort_by") => caller_list = plast.before_list
    /\ C10_Case =>
          /\ plast.result.shape = "list"
          /\ SameRecords(plast.result.items, plast.obj_list)
          /\ sort_args.args = <<>> => plast.result.items = plast.obj_list
          /\ DistinctProps(sort_args.args) => OrderedBy(plast.result.items, sort_args.args)
          /\ plast.result
               = run_parser(parse_sort_by(parser_prop_handler, <<>>, sort_args.args).value,
                            NoGroupBy, <<>>, plast.obj_list).result

C10_Witness ==
    /\ C10_Case
    /\ sort_args.args = <<>>
    /\ Len(plast.obj_list) >= 2
    /\ plast.result.items = plast.obj_list
    /\ ~OrderedBy(plast.obj_list, <<<<"SERVER_ID", FALSE>>>>)
    /\ ~OrderedBy(plast.obj_list, <<<<"SERVER_ID", TRUE>>>>)

\* the properties of a parse_sort_by call that the prop handler does not
\* support
UnsupportedSortProps ==
    {sort_args.args[i][1] : i \in 1..Len(sort_args.args)} \ parser_prop_handler

\* C11: parse_sort_by and parse_group_by raise QueryPropertyMappingError
\* when they are called, on a parser that has run on no data, whenever a
\* property given to them fails check_supported; a parse_group_by that
\* raises so records nothing: _group_by and _group_mappings stay as they were.
C11_FailFast ==
    /\ (plast # NoCall /\ plast.op = "parse_sort_by" /\ UnsupportedSortProps # {})
          => plast.raised = "QueryPropertyMappingError"
    /\ (plast # NoCall /\ plast.op = "parse_group_by"
          /\ group_args.prop \notin parser_prop_handler)
          => /\ plast.raised = "QueryPropertyMappingError"
             /\ ~plast.recorded
    /\ caller_list = <<>>

C11_Witness ==
    /\ plast # NoCall
    /\ plast.op = "parse_group_by"
    /\ plast.raised = "QueryPropertyMappingError"
    /\ group_by # NoGroupBy
    /\ group_mappings # <<>>
    /\ sort_args.raised = "QueryPropertyMappingError"
    /\ Len(sort_args.args) >= 2
    /\ sort_args.args[1][1] \in parser_prop_handler

\* the place of a record in a list of distinct records
IndexOf(items, r) == CHOOSE i \in 1..Len(items) : items[i] = r

\* run_parser ran ungrouped after a parse_sort_by call that returned, given
\* at least one spec, all over distinct properties
C12_Case ==
    /\ plast # NoCall
    /\ plast.op = "run_parser"
    /\ plast.obj_list # <<>>
    /\ group_by = NoGroupBy
    /\ sort_args.called
    /\ sort_args.raised = None
    /\ sort_args.args # <<>>
    /\ DistinctProps(sort_args.args)

\* C12: with sort specs over distinct properties, run_parser returns the
\* records in lexicographic order: the first spec is the primary key, each
\* later spec breaks the ties of those before it, each key ascending or,
\* when its flag is true, descending.
C12_LexicographicOrder ==
    C12_Case =>
        /\ plast.result.shape = "list"
        /\ SameRecords(plast.result.items, plast.obj_list)
        /\ \A i, j \in 1..Len(plast.result.items) :
              StrictlyBefore(plast.result.items[i], plast.result.items[j], sort_args.args)
                 => i < j
        /\ Len(sort_args.args) = 1 =>
              \A i \in 1..(Len(plast.result.items) - 1) :
                 LET a == get_prop(plast.result.items[i], sort_args.args[1][1])
                     b == get_prop(plast.result.items[i + 1], sort_args.args[1][1])
                 IN IF sort_args.args[1][2] THEN a >= b ELSE a <= b

\* two specs, the second descending; two records tie on the first key and
\* the second key put them in the order opposite to the input's
C12_Witness ==
    /\ C12_Case
    /\ Len(sort_args.args) = 2
    /\ ~sort_args.args[1][2]
    /\ sort_args.args[2][2]
    /\ \E i, j \in 1..Len(plast.result.items) :
          /\ i < j
          /\ get_prop(plast.result.items[i], sort_args.args[1][1])
               = get_prop(plast.result.items[j], sort_args.args[1][1])
          /\ get_prop(plast.result.items[i], sort_args.args[2][1])
               > get_prop(plast.result.items[j], sort_args.args[2][1])
          /\ IndexOf(plast.obj_list, plast.result.items[j])
               < IndexOf(plast.obj_list, plast.result.items[i])

\* the groups of a grouped result: their names, and the records under a name
GroupNames(result) == {result.groups[i][1] : i \in 1..Len(result.groups)}

GroupItems(result, name) ==
    LET i == CHOOSE k \in 1..Len(result.groups) : result.groups[k][1] = name
    IN result.groups[i][2]

\* the records of a list, and those whose value of a property is in a set
RecordsOf(items) == {items[i] : i \in 1..Len(items)}

RecordsWith(items, prop, vals) == {r \in RecordsOf(items) : get_prop(r, prop) \in vals}

RecordsWithout(items, prop, vals) == RecordsOf(items) \ RecordsWith(items, prop, vals)

\* the names and the value list of a name in the group_ranges of a call
RangeNames(ranges) == {GroupName(ranges.items[i][1]) : i \in 1..Len(ranges.items)}

RangeValues(ranges, name) ==
    LET i == CHOOSE k \in 1..Len(ranges.items) : GroupName(ranges.items[k][1]) = name
    IN ranges.items[i][2]

\* run_parser ran on records after a parse_group_by call that returned and
\* was given ranges
C13_Case ==
    /\ plast # NoCall
    /\ plast.op = "run_parser"
    /\ plast.obj_list # <<>>
    /\ group_args.called
    /\ group_args.raised = None
    /\ group_args.ranges.given
    /\ group_args.ranges.items # <<>>

\* C13: after parse_group_by(P, ranges, include_missing), run_parser on a
\* non-empty list returns one group per name of ranges, holding exactly the
\* records whose P value is in the name's list, and, when include_missing is
\* true, the group "ungrouped results" holding exactly the records whose P
\* value is in no list; when it is false there is no further group.
C13_ExplicitRangeGroups ==
    C13_Case =>
        LET names == RangeNames(group_args.ranges)
            missing == RecordsWithout(plast.obj_list, group_args.prop,
                                      AllPropList(group_args.ranges.items))
        IN /\ plast.result.shape = "dict"
           /\ GroupNames(plast.result)
                = names \cup (IF group_args.include_missing THEN {UngroupedName} ELSE {})
           /\ \A n \in names :
                 RecordsOf(GroupItems(plast.result, n))
                   = RecordsWith(plast.obj_list, group_args.prop,
                                 RangeValues(group_args.ranges, n))
           /\ group_args.include_missing =>
                 RecordsOf(GroupItems(plast.result, UngroupedName)) = missing
           /\ ~group_args.include_missing =>
                 \A n \in GroupNames(plast.result) :
                    RecordsOf(GroupItems(plast.result, n)) \cap missing = {}

\* the distinct values of a property in a list, in the order they first occur
RECURSIVE FirstSeen(_, _)
FirstSeen(items, prop) ==
    IF items = <<>> THEN <<>>
    ELSE LET v == get_prop(Head(items), prop)
         IN <<v>> \o SelectSeq(FirstSeen(Tail(items), prop), LAMBDA x : x # v)

\* the list run_parser groups: sorted by the specs of the last parse_sort_by
\* call, the input list when there is none
ListToGroup ==
    IF sort_args.called /\ sort_args.args # <<>>
    THEN run_sort(plast.obj_list,
                  parse_sort_by(parser_prop_handler, <<>>, sort_args.args).value)
    ELSE plast.obj_list

\* run_parser ran on records after a parse_group_by call that returned and
\* was given no ranges, no parse_sort_by call having failed last
C14_Case ==
    /\ plast # NoCall
    /\ plast.op = "run_parser"
    /\ plast.obj_list # <<>>
    /\ group_args.called
    /\ group_args.raised = None
    /\ ~(group_args.ranges.given /\ group_args.ranges.items # <<>>)
    /\ sort_args.raised = None

\* C14: after parse_group_by(P) without ranges, run_parser on a non-empty
\* list returns one group per distinct P value of the list, in the order the
\* values are first seen in the list (sorted first, when a sort is
\* configured), each named after P and its value and holding all and only
\* the records with that value.
C14_UniqueValueGroups ==
    C14_Case =>
        LET seen == FirstSeen(ListToGroup, group_args.prop) IN
        /\ plast.result.shape = "dict"
        /\ Len(plast.result.groups) = Len(seen)
        /\ \A i \in 1..Len(seen) :
              /\ i <= Len(plast.result.groups)
              /\ plast.result.groups[i][1] = ValueName(group_args.prop, seen[i])
              /\ RecordsOf(plast.result.groups[i][2])
                   = RecordsWith(plast.obj_list, group_args.prop, {seen[i]})

\* the names of the last parse_group_by call whose value list holds the
\* record's value of the grouped property
MatchingNames(r) ==
    {n \in RangeNames(group_args.ranges) :
        get_prop(r, group_args.prop) \in RangeValues(group_args.ranges, n)}

\* C15: after parse_group_by with ranges, a record whose value is in the
\* lists of several names is, in run_parser's output, in the group of every
\* one of those names, once in each.
C15_OverlappingRanges ==
    C13_Case =>
        \A r \in RecordsOf(plast.obj_list) :
            \A n \in MatchingNames(r) :
                /\ n \in GroupNames(plast.result)
                /\ Cardinality({i \in 1..Len(GroupItems(plast.result, n)) :
                                   GroupItems(plast.result, n)[i] = r}) = 1

C15_Witness ==
    /\ C13_Case
    /\ \E r \in RecordsOf(plast.obj_list) :
          /\ Cardinality(MatchingNames(r)) >= 2
          /\ \A n \in MatchingNames(r) : r \in RecordsOf(GroupItems(plast.result, n))
    /\ \E r \in RecordsOf(plast.obj_list) : Cardinality(MatchingNames(r)) = 1

\* C16: run_parser returns an empty list as the same empty flat list
\* whatever is configured; for a non-empty list it returns a mapping of
\* group name to records exactly when some parse_group_by call has returned,
\* and a flat list of the same records otherwise; never both.
C16_OutputShape ==
    (plast # NoCall /\ plast.op = "run_parser") =>
        /\ plast.result.shape \in {"list", "dict"}
        /\ plast.result.shape = "list" => plast.result.groups = <<>>
        /\ plast.result.shape = "dict" => plast.result.items = <<>>
        /\ plast.obj_list = <<>> =>
              /\ plast.result = FlatResult(<<>>)
              /\ caller_list = <<>>
        /\ plast.obj_list # <<>> =>
              /\ plast.result.shape = "dict" <=> group_args.configured
              /\ plast.result.shape = "list" =>
                    SameRecords(plast.result.items, plast.obj_list)

C16_Witness ==
    /\ plast # NoCall
    /\ plast.op = "run_parser"
    /\ plast.obj_list = <<>>
    /\ group_args.configured
    /\ group_args.raised # None
    /\ sort_by # <<>>
    /\ plast.result.shape = "list"

\* two records have the same value of every property the parser sorts by
TiedOnSortKeys(x, y) ==
    \A k \in 1..Len(sort_by) : get_prop(x, sort_by[k][1]) = get_prop(y, sort_by[k][1])

\* C25: the sort of run_parser is stable, ascending or descending: records
\* with equal values of every configured sort key are in the output in the
\* order they had in the input.
C25_StableSort ==
    (plast # NoCall /\ plast.op = "run_parser" /\ group_by = NoGroupBy) =>
        /\ SameRecords(plast.result.items, plast.obj_list)
        /\ \A i, j \in 1..Len(plast.obj_list) :
              (i < j /\ TiedOnSortKeys(plast.obj_list[i], plast.obj_list[j]))
                 => IndexOf(plast.result.items, plast.obj_list[i])
                      < IndexOf(plast.result.items, plast.obj_list[j])

\* a descending sort that moved records and kept two tied ones in order
C25_Witness ==
    /\ plast # NoCall
    /\ plast.op = "run_parser"
    /\ group_by = NoGroupBy
    /\ Len(sort_by) = 1
    /\ sort_by[1][2]
    /\ plast.result.items # plast.obj_list
    /\ \E i, j \in 1..Len(plast.obj_list) :
          /\ i < j
          /\ TiedOnSortKeys(plast.obj_list[i], plast.obj_list[j])
          /\ IndexOf(plast.result.items, plast.obj_list[i])
               < IndexOf(plast.result.items, plast.obj_list[j])

\* run_parser ran on records with a sort and named groups configured
C26_Case ==
    /\ plast # NoCall
    /\ plast.op = "run_parser"
    /\ plast.obj_list # <<>>
    /\ sort_by # <<>>
    /\ group_by # NoGroupBy
    /\ \E i \in 1..Len(group_mappings) : group_mappings[i][1].kind = "named"

\* the records of a list that pass a group's predicate, in the list's order
Selected(items, pred) == SelectSeq(items, LAMBDA r : MapFunc(pred, r))

\* C26: with a sort and explicit-range groups configured, each group of
\* run_parser's output is the records of the fully sorted list that pass the
\* group's predicate, in that order, which is also what selecting the
\* group's records from the unsorted input and sorting them gives.
C26_SortCommutesWithGrouping ==
    C26_Case =>
        /\ plast.result.shape = "dict"
        /\ Len(plast.result.groups) = Len(group_mappings)
        /\ \A i \in 1..Len(group_mappings) :
              /\ i <= Len(plast.result.groups)
              /\ plast.result.groups[i][1] = group_mappings[i][1]
              /\ plast.result.groups[i][2]
                   = Selected(run_sort(plast.obj_list, sort_by), group_mappings[i][2])
              /\ plast.result.groups[i][2]
                   = run_sort(Selected(plast.obj_list, group_mappings[i][2]), sort_by)

\* a named group of two or more records whose order the sort changed, with
\* a record of the input outside it
C26_Witness ==
    /\ C26_Case
    /\ \E i \in 1..Len(plast.result.groups) :
          /\ plast.result.groups[i][1].kind = "named"
          /\ Len(plast.result.groups[i][2]) >= 2
          /\ Len(plast.result.groups[i][2]) < Len(plast.obj_list)
          /\ plast.result.groups[i][2] # Selected(plast.obj_list, group_mappings[i][2])

\* the group names the last parse_group_by call defines for a list: the
\* names of its ranges, with "ungrouped results" when include_missing, or
\* one name per value of its property in the list
DefinedNames(items) ==
    IF group_args.ranges.given /\ group_args.ranges.items # <<>>
    THEN RangeNames(group_args.ranges)
           \cup (IF group_args.include_missing THEN {UngroupedName} ELSE {})
    ELSE {ValueName(group_args.prop, get_prop(r, group_args.prop)) : r \in RecordsOf(items)}

\* the records of a list that the last parse_group_by call puts under a name
DefinedRecords(items, name) ==
    IF name.kind = "value"
    THEN RecordsWith(items, name.prop, {name.val})
    ELSE IF name = UngroupedName
    THEN RecordsWithout(items, group_args.prop, AllPropList(group_args.ranges.items))
    ELSE RecordsWith(items, group_args.prop, RangeValues(group_args.ranges, name))

\* run_parser ran on records after a parse_group_by call that returned on a
\* parser whose grouping was configured already
C27_Case ==
    /\ plast # NoCall
    /\ plast.op = "run_parser"
    /\ plast.obj_list # <<>>
    /\ group_args.called
    /\ group_args.raised = None
    /\ group_args.replaced

\* C27: parse_group_by replaces the grouping configured before it: after a
\* second parse_group_by call, run_parser's groups are exactly the groups
\* that call defines (its named ranges, or the values of its property), each
\* with that call's predicate, and none left from the first call.
C27_GroupByReplaces ==
    C27_Case =>
        /\ plast.result.shape = "dict"
        /\ GroupNames(plast.result) = DefinedNames(plast.obj_list)
        /\ \A n \in GroupNames(plast.result) \cap DefinedNames(plast.obj_list) :
              RecordsOf(GroupItems(plast.result, n)) = DefinedRecords(plast.obj_list, n)

\* run_parser ran on records of a parser whose one parse_group_by call was
\* given no ranges
C28_Case ==
    /\ plast # NoCall
    /\ plast.op = "run_parser"
    /\ plast.obj_list # <<>>
    /\ group_args.called
    /\ group_args.raised = None
    /\ ~group_args.replaced
    /\ ~(group_args.ranges.given /\ group_args.ranges.items # <<>>)

\* C28: run_parser leaves _sort_by, _group_by and _group_mappings as they
\* were, so with auto-derived grouping every run returns the groups of the
\* distinct values of the list it was given, each holding the records of
\* that list with the value, and none remembered from an earlier run.
C28_RunParserKeepsConfig ==
    /\ [][plast'.op = "run_parser"
            => (sort_by' = sort_by /\ group_by' = group_by
                  /\ group_mappings' = group_mappings)]_vars
    /\ [](C28_Case =>
            /\ GroupNames(plast.result) = DefinedNames(plast.obj_list)
            /\ \A n \in GroupNames(plast.result) \cap DefinedNames(plast.obj_list) :
                  RecordsOf(GroupItems(plast.result, n))
                    = DefinedRecords(plast.obj_list, n))

\* C29: a parse_sort_by call that raises QueryPropertyMappingError leaves
\* _sort_by as it was before the call: the earlier configuration is kept and
\* no spec of the failing call is recorded.
C29_FailedSortByKeepsConfig ==
    [][(plast'.op = "parse_sort_by" /\ plast'.raised = "QueryPropertyMappingError")
          => sort_by' = sort_by]_vars

\* C30: after a parse_sort_by call that returned, _sort_by holds one
\* (property, descending) entry per spec of the call, in the order given,
\* also when a property is given more than once with different directions.
C30_SortByKeepsEverySpec ==
    (sort_args.called /\ sort_args.raised = None) =>
        /\ Len(sort_by) = Len(sort_args.args)
        /\ \A i \in 1..Len(sort_args.args) :
              i <= Len(sort_by) /\ sort_by[i] = sort_args.args[i]

\* C19: run_parser leaves the list it is passed as it was: after the call,
\* whatever sort is configured, the caller's list holds the same records in
\* the same order as before.
C19_CallerListUntouched ==
    (plast # NoCall /\ plast.op = "run_parser") => caller_list = plast.obj_list

\* ------------------------------------------------------- enum properties
IsServerProperty(prop) == prop.enum = "ServerProperties" /\ prop.name \in ServerProperties

\* C17: get_prop_func returns an accessor for every member of
\* ServerProperties, the mapping holding exactly one accessor per member,
\* and raises QueryPropertyMappingError, returning nothing, for a property
\* that is not a member of the enumeration.
C17_AccessorsExhaustive ==
    /\ \A m \in ServerProperties : Cardinality({e \in ServerPropMapping : e[1] = m}) = 1
    /\ (lookup # NoCall /\ lookup.op = "get_prop_func") =>
          IF IsServerProperty(lookup.arg)
          THEN /\ lookup.out.raised = None
               /\ lookup.out.value.defined
               /\ lookup.out.value.key # None
          ELSE /\ lookup.out.raised = "QueryPropertyMappingError"
               /\ ~lookup.out.value.defined

C17_Witness ==
    /\ lookup # NoCall
    /\ lookup.op = "get_prop_func"
    /\ lookup.arg = Member("enums.query.server_properties.ServerProperties", "SERVER_ID")
    /\ lookup.out.raised = "QueryPropertyMappingError"
    /\ get_prop_func(Member("ServerProperties", "SERVER_ID")).value.key = "id"

\* two characters that are the same letter in either case, or the same
\* character
SameLetter(a, b) ==
    \/ a = b
    \/ \E i \in 1..Len(LowerCase) : {a, b} = {LowerCase[i], UpperCase[i]}

EqualIgnoringCase(x, y) ==
    /\ Len(x) = Len(y)
    /\ \A i \in 1..Len(x) : SameLetter(x[i], y[i])

\* the enumeration a from_string call was made on: its class and its names
LookupEnum == IF lookup.op = "SortOrder.from_string" THEN "SortOrder" ELSE "ServerProperties"

LookupNames == IF lookup.op = "SortOrder.from_string" THEN SortOrder ELSE ServerProperties

\* C18: SortOrder.from_string and ServerProperties.from_string return the
\* member whose name equals the string with letter case ignored, and raise
\* ParseQueryError for every string that equals no member name so.
C18_FromStringIgnoresCase ==
    (lookup # NoCall
       /\ lookup.op \in {"SortOrder.from_string", "ServerProperties.from_string"}) =>
        LET matches == {n \in LookupNames : EqualIgnoringCase(Chars(n), lookup.arg)}
        IN IF matches # {}
           THEN /\ lookup.out.raised = None
                /\ \E n \in matches : lookup.out.value = Member(LookupEnum, n)
           ELSE /\ lookup.out.raised = "ParseQueryError"
                /\ lookup.out.value = None

C18_Witness ==
    /\ lookup # NoCall
    /\ lookup.op = "SortOrder.from_string"
    /\ lookup.arg = <<"D", "e", "s", "c">>
    /\ lookup.out.value = Member("SortOrder", "DESC")
    /\ ServerProperties_from_string(<<"D", "e", "s", "c">>).raised = "ParseQueryError"
    /\ ServerProperties_from_string(Lower(Chars("SERVER_ID"))).value
         = Member("ServerProperties", "SERVER_ID")

====
